---- MODULE Spec2Model ----
(***************************************************************************)
(* Model of the product resolution-and-harvest pipeline:                   *)
(*   fastapi/app/normalize_product_name.py  (keyword variants, identity    *)
(*       cache, browser tier, HTTP fallback tier, concurrency bridge)      *)
(*   fastapi/app/main.py, mcp_server.py     (normalize / crawl handlers)   *)
(*   fastapi/app/compare_products.py, mcp_server.py (batch compare)        *)
(*   fastapi/app/new_single_page_crawler.py (image collection)             *)
(*   fastapi/app/image_encoder.py           (image optimizer)              *)
(*                                                                         *)
(* Text is modelled as a sequence of characters.  The Hangul syllables of  *)
(* the brand rules are written in Latin letters: "sam" "seong" "jeon" "ja" *)
(* "el" "ji" each stand for ONE character of the source string.            *)
(***************************************************************************)
EXTENDS Integers, Sequences, FiniteSets, TLC

VARIABLES
    cache,      \* product_name_to_model: insertion-ordered <<key, identity>> pairs
    req,        \* the /normalize-product-name requests in flight, one per worker thread
    res,        \* one resolution at a time, with the full record of what it did
    lastPut,    \* history: the most recent cache write <<key, identity>>, <<>> at the start
    crawlResp,  \* response of the most recent /crawl or crawl_product_images call
    cmp,        \* the batch compare call in progress
    col,        \* the image collection call in progress
    opt,        \* the optimize_image_bytes call in progress
    fn,         \* the call of a pure function in progress: its input and its value
    sess        \* per thread of control, the browser session of its call

vars == <<cache, req, res, lastPut, crawlResp, cmp, col, opt, fn, sess>>

None == "None"

\* A resolved identity is {"model": ..., "url": ...}; NoId stands for Python's
\* None where an identity is expected.
NoId == [model |-> None, url |-> None]

-----------------------------------------------------------------------------
(* Characters and strings                                                  *)

SP == " "

\* str.lower() on one character: only the Latin capitals change.
LowerChar(c) ==
    CASE c = "L" -> "l"
      [] c = "G" -> "g"
      [] c = "X" -> "x"
      [] OTHER -> c

\* str.lower()
Lower(s) == [i \in 1..Len(s) |-> LowerChar(s[i])]

IsSpace(c) == c = SP

RECURSIVE LStrip(_)
LStrip(s) == IF s # <<>> /\ IsSpace(Head(s)) THEN LStrip(Tail(s)) ELSE s

RECURSIVE RStrip(_)
RStrip(s) ==
    IF s # <<>> /\ IsSpace(s[Len(s)]) THEN RStrip(SubSeq(s, 1, Len(s) - 1)) ELSE s

\* str.strip()
Strip(s) == RStrip(LStrip(s))

\* s.startswith(p)
StartsWith(s, p) == Len(s) >= Len(p) /\ SubSeq(s, 1, Len(p)) = p

\* sub in s
Contains(s, sub) ==
    \E i \in 1..(Len(s) - Len(sub) + 1) : SubSeq(s, i, i + Len(sub) - 1) = sub

\* s.replace(old, new): leftmost, non-overlapping occurrences
RECURSIVE Replace(_, _, _)
Replace(s, old, new) ==
    IF s = <<>> THEN <<>>
    ELSE IF StartsWith(s, old)
         THEN new \o Replace(SubSeq(s, Len(old) + 1, Len(s)), old, new)
         ELSE <<Head(s)>> \o Replace(Tail(s), old, new)

\* The group (.+) of the pattern  ^<prefix>\s*(.+)  applied to the text that
\* follows the prefix: \s* is greedy but gives one blank back when nothing
\* else is left for (.+).  <<>> when the pattern does not match ((.+) never
\* matches the empty string).
RestAfterPrefix(tail) ==
    IF tail = <<>> THEN <<>>
    ELSE IF LStrip(tail) # <<>> THEN LStrip(tail)
         ELSE <<tail[Len(tail)]>>

SAMSUNG == <<"sam", "seong">>
JEONJA == <<"jeon", "ja">>
SAMSUNG_JEONJA == <<"sam", "seong", "jeon", "ja">>
SAMSUNG_SP_JEONJA == <<"sam", "seong", SP, "jeon", "ja">>

\* re.match(r'^(LG|lg|..)\s*', name, re.IGNORECASE): the matched prefix length, 0 if none
LGPrefixLen(s) ==
    IF Len(s) >= 2 /\ Lower(SubSeq(s, 1, 2)) = <<"l", "g">> THEN 2
    ELSE IF StartsWith(s, <<"el", "ji">>) THEN 2
    ELSE 0

RECURSIVE Dedup(_, _)
Dedup(keywords, seen) ==
    IF keywords = <<>> THEN <<>>
    ELSE IF Head(keywords) \in seen THEN Dedup(Tail(keywords), seen)
         ELSE <<Head(keywords)>> \o Dedup(Tail(keywords), seen \cup {Head(keywords)})

SamsungVariants(product_name) ==
    IF StartsWith(product_name, SAMSUNG) /\ ~Contains(product_name, JEONJA)
    THEN LET rest == RestAfterPrefix(SubSeq(product_name, 3, Len(product_name)))
         IN IF rest = <<>> THEN <<>>
            ELSE LET normalized_name1 == Strip(SAMSUNG_SP_JEONJA \o <<SP>> \o rest)
                     normalized_name2 == Strip(SAMSUNG_JEONJA \o <<SP>> \o rest)
                 IN (IF normalized_name1 # product_name
                     THEN <<normalized_name1>> ELSE <<>>)
                    \o (IF normalized_name2 # product_name
                           /\ normalized_name2 # normalized_name1
                        THEN <<normalized_name2>> ELSE <<>>)
    ELSE IF Contains(product_name, SAMSUNG_JEONJA)
            /\ ~Contains(product_name, SAMSUNG_SP_JEONJA)
    THEN LET normalized_name == Replace(product_name, SAMSUNG_JEONJA, SAMSUNG_SP_JEONJA)
         IN IF normalized_name # product_name THEN <<normalized_name>> ELSE <<>>
    ELSE IF Contains(product_name, SAMSUNG_SP_JEONJA)
    THEN LET normalized_name == Replace(product_name, SAMSUNG_SP_JEONJA, SAMSUNG_JEONJA)
         IN IF normalized_name # product_name THEN <<normalized_name>> ELSE <<>>
    ELSE <<>>

\* LGVariants without the brand in front of the rest
LGVariants_RestOnly(product_name) ==
    IF LGPrefixLen(product_name) > 0 /\ ~Contains(product_name, JEONJA)
    THEN LET rest == RestAfterPrefix(
                        SubSeq(product_name, LGPrefixLen(product_name) + 1,
                               Len(product_name)))
         IN IF rest = <<>> THEN <<>>
            ELSE LET normalized_name == Strip(rest)
                 IN IF normalized_name # product_name
                    THEN <<normalized_name>> ELSE <<>>
    ELSE <<>>

LGVariants(product_name) ==
    IF LGPrefixLen(product_name) > 0 /\ ~Contains(product_name, JEONJA)
    THEN LET rest == RestAfterPrefix(
                        SubSeq(product_name, LGPrefixLen(product_name) + 1,
                               Len(product_name)))
         IN IF rest = <<>> THEN <<>>
            ELSE LET normalized_name == Strip(<<"L", "G">> \o JEONJA \o <<SP>> \o rest)
                 IN IF normalized_name # product_name
                    THEN <<normalized_name>> ELSE <<>>
    ELSE <<>>

\* normalize_search_keyword with the variants ahead of the name itself
normalize_search_keyword_VariantsFirst(product_name) ==
    Dedup(SamsungVariants(product_name) \o LGVariants(product_name) \o <<product_name>>,
          {})

normalize_search_keyword(product_name) ==
    Dedup(<<product_name>> \o SamsungVariants(product_name) \o LGVariants(product_name),
          {})

-----------------------------------------------------------------------------
(* The identity cache: a Python dict, which keeps insertion order.         *)

Keys(c) == {c[i][1] : i \in 1..Len(c)}

HasKey(c, k) == k \in Keys(c)

KeyIndex(c, k) == CHOOSE i \in 1..Len(c) : c[i][1] = k

\* c[k]
Get(c, k) == c[KeyIndex(c, k)][2]

\* Variant of Put that keeps the value of a key already present (setdefault)
Put_KeepExisting(c, k, v) == IF HasKey(c, k) THEN c ELSE Append(c, <<k, v>>)

\* c[k] = v : an existing key keeps its position, a new key goes last
Put(c, k, v) ==
    IF HasKey(c, k)
    THEN [c EXCEPT ![KeyIndex(c, k)] = <<k, v>>]
    ELSE Append(c, <<k, v>>)

\* Variant of CIMatches that compares without lower()
CIMatches_CaseSensitive(c, name) == {i \in 1..Len(c) : c[i][1] = name}

\* for key, value in c.items(): if key.lower() == name.lower(): ... (first match)
CIMatches(c, name) == {i \in 1..Len(c) : Lower(c[i][1]) = Lower(name)}

FirstCI(c, name) ==
    LET m == CIMatches(c, name)
    IN CHOOSE i \in m : \A j \in m : i <= j

\* exact key first, then the first case-insensitive match in insertion order
CacheLookup(c, name) ==
    IF HasKey(c, name) THEN Get(c, name)
    ELSE IF CIMatches(c, name) # {} THEN c[FirstCI(c, name)][2]
    ELSE NoId

-----------------------------------------------------------------------------
(* Model-code extraction from a detail page (browser tier)                 *)

\* len() of the strings the page scenarios below use
StrLen(code) ==
    CASE code = "" -> 0
      [] code = "AX060CG500G" -> 11
      [] code = "AP70F03102RTD" -> 13
      [] code = "AB1234" -> 6
      [] code = "SPECVALUE" -> 9
      [] code = "AIRCONDITIONER" -> 14
      [] OTHER -> 1

\* max(matches, key=len): the first element of greatest length
MaxByLen(matches) ==
    LET best == CHOOSE i \in 1..Len(matches) :
                    /\ \A j \in 1..Len(matches) : StrLen(matches[j]) <= StrLen(matches[i])
                    /\ \A j \in 1..(i - 1) : StrLen(matches[j]) < StrLen(matches[i])
    IN matches[best]

\* Tier A.  The spec-table loop: the value of the first row that has a th and a
\* td, whose texts can be read and whose label matches; None when no row does.
RECURSIVE SpecTableModel(_)
SpecTableModel(rows) ==
    IF rows = <<>> THEN None
    ELSE LET row == Head(rows)
         IN IF ~row.th \/ ~row.td THEN SpecTableModel(Tail(rows))
            ELSE IF ~row.readable THEN SpecTableModel(Tail(rows))
            ELSE IF row.label_match THEN row.value
            ELSE SpecTableModel(Tail(rows))

Truthy(v) == v # None /\ v # ""

\* for pattern in patterns: matches = re.findall(...); if matches: matches[0]; break
\* hits[p] is what findall gives for the p-th pattern on the text.
FirstPatternFirstHit(hits) ==
    IF \A p \in 1..Len(hits) : hits[p] = <<>> THEN None
    ELSE LET p == CHOOSE q \in 1..Len(hits) :
                      hits[q] # <<>> /\ \A r \in 1..(q - 1) : hits[r] = <<>>
         IN hits[p][1]

\* Variant of FirstPatternLongestHit that takes the longest hit of all patterns
FirstPatternLongestHit_AllPatterns(hits) ==
    IF \A p \in 1..Len(hits) : hits[p] = <<>> THEN None
    ELSE MaxByLen(hits[1] \o hits[2] \o hits[3])

\* Tier D: the first pattern that has hits; of its hits the longest
FirstPatternLongestHit(hits) ==
    IF \A p \in 1..Len(hits) : hits[p] = <<>> THEN None
    ELSE LET p == CHOOSE q \in 1..Len(hits) :
                      hits[q] # <<>> /\ \A r \in 1..(q - 1) : hits[r] = <<>>
         IN MaxByLen(hits[p])

\* A locator's text tier (B or C).  el.state: "absent" (locator count 0),
\* "timeout" (inner_text timed out: "" is searched, nothing is found), "text"
\* (el.hits are the pattern hits of its text)
TextTier(el) ==
    IF el.state = "absent" THEN None
    ELSE IF el.state = "timeout" THEN None
    ELSE FirstPatternFirstHit(el.hits)

\* Variant of ExtractModel that tries the title ahead of the spec table
ExtractModel_TitleFirst(pg) ==
    LET b == TextTier(pg.title)
        a == IF Truthy(b) THEN b ELSE SpecTableModel(pg.rows)
        c == IF Truthy(a) THEN a ELSE TextTier(pg.info)
        d == IF Truthy(c) THEN c
             ELSE IF pg.body.state = "error" THEN None
             ELSE FirstPatternLongestHit(pg.body.hits)
    IN [model |-> d,
        tier |-> IF Truthy(b) THEN "B" ELSE IF Truthy(a) THEN "A"
                 ELSE IF Truthy(c) THEN "C" ELSE IF Truthy(d) THEN "D" ELSE "none"]

\* Lines 239-342: the tiers on the loaded detail page.  pg.body.state = "error"
\* is a failure reading the page text, which the code swallows.
ExtractModel(pg) ==
    LET a == SpecTableModel(pg.rows)
        b == IF Truthy(a) THEN a ELSE TextTier(pg.title)
        c == IF Truthy(b) THEN b ELSE TextTier(pg.info)
        d == IF Truthy(c) THEN c
             ELSE IF pg.body.state = "error" THEN None
             ELSE FirstPatternLongestHit(pg.body.hits)
    IN [model |-> d,
        tier |-> IF Truthy(a) THEN "A" ELSE IF Truthy(b) THEN "B"
                 ELSE IF Truthy(c) THEN "C" ELSE IF Truthy(d) THEN "D" ELSE "none"]

\* if product_url.startswith("/info"): product_url = "http://prod.danawa.com" + product_url
\* (the concatenation, on the hrefs the page scenarios use)
AbsoluteUrl(href) ==
    CASE href = "/info/?pcode=1" -> "http://prod.danawa.com/info/?pcode=1"
      [] href = "/info/2" -> "http://prod.danawa.com/info/2"
      [] OTHER -> href

\* f"PCODE_{pcode_match.group(1)}"
PcodeModel(pcode) ==
    CASE pcode = "1" -> "PCODE_1"
      [] pcode = "2" -> "PCODE_2"
      [] OTHER -> "PCODE_"

NoResult(out, goto) == [out |-> out, result |-> NoId, tier |-> "none", goto |-> goto]

\* Lines 175-357: the browser tier of _search_danawa_internal on the pages the
\* marketplace serves (pg).  out = "raise" is an exception caught at 354-357.
BrowserTier(pg) ==
    IF ~pg.launch THEN NoResult("raise", FALSE)
    ELSE IF ~pg.search_goto THEN NoResult("raise", FALSE)
    ELSE IF ~(pg.selector1 \/ pg.selector2) THEN NoResult("empty", FALSE)
    ELSE IF ~pg.item THEN NoResult("empty", FALSE)
    ELSE IF ~pg.link THEN NoResult("empty", FALSE)
    ELSE IF pg.href = "" THEN NoResult("raise", TRUE)      \* page.goto(None), line 235
    ELSE IF ~pg.detail_goto THEN NoResult("raise", TRUE)
    ELSE LET product_url == AbsoluteUrl(pg.href)
             ex == ExtractModel(pg)
         IN IF Truthy(ex.model)
            THEN [out |-> "hit", result |-> [model |-> ex.model, url |-> product_url],
                  tier |-> ex.tier, goto |-> TRUE]
            ELSE IF pg.pcode # None
            THEN [out |-> "hit",
                  result |-> [model |-> PcodeModel(pg.pcode), url |-> product_url],
                  tier |-> "E", goto |-> TRUE]
            ELSE NoResult("empty", TRUE)

-----------------------------------------------------------------------------
(* HTTP fallback tier                                                      *)

\* _extract_model_from_detail_html: the first table row that has a th and a td,
\* a matching label and a non-empty value; then the first title/summary text
\* with a pattern match (cands[i] is re.search's match on the i-th text, None
\* when there is none).
RECURSIVE HtmlTableModel(_)
HtmlTableModel(rows) ==
    IF rows = <<>> THEN None
    ELSE LET row == Head(rows)
         IN IF ~row.th \/ ~row.td THEN HtmlTableModel(Tail(rows))
            ELSE IF row.label_match /\ row.value # "" THEN row.value
            ELSE HtmlTableModel(Tail(rows))

RECURSIVE FirstCandidate(_)
FirstCandidate(cands) ==
    IF cands = <<>> THEN None
    ELSE IF Head(cands) # None THEN Head(cands)
    ELSE FirstCandidate(Tail(cands))

_extract_model_from_detail_html(html) ==
    IF HtmlTableModel(html.rows) # None THEN HtmlTableModel(html.rows)
    ELSE FirstCandidate(html.cands)

\* _search_with_requests on what the marketplace serves to the plain client.
\* out = "raise" is an exception of requests.get / raise_for_status.
_search_with_requests(hp) ==
    IF ~hp.search_ok THEN [out |-> "raise", result |-> NoId]
    ELSE IF ~hp.product THEN [out |-> "none", result |-> NoId]
    ELSE IF ~hp.link \/ hp.href = "" THEN [out |-> "none", result |-> NoId]
    ELSE IF ~hp.detail_ok THEN [out |-> "raise", result |-> NoId]
    ELSE LET product_url == AbsoluteUrl(hp.href)
             model_name == _extract_model_from_detail_html(hp.html)
         IN IF Truthy(model_name)
            THEN [out |-> "hit", result |-> [model |-> model_name, url |-> product_url]]
            ELSE [out |-> "none", result |-> NoId]

-----------------------------------------------------------------------------
(* What the marketplace may serve                                          *)

NoText == [state |-> "absent", hits |-> <<>>]
NoHits == <<<<>>, <<>>, <<>>>>

\* A search that finds a product whose detail page carries no model text
BasePage ==
    [launch |-> TRUE, search_goto |-> TRUE, selector1 |-> TRUE, selector2 |-> FALSE,
     item |-> TRUE, link |-> TRUE, href |-> "/info/?pcode=1", detail_goto |-> TRUE,
     rows |-> <<>>, title |-> NoText, info |-> NoText,
     body |-> [state |-> "text", hits |-> NoHits], pcode |-> None]

TitleText == [state |-> "text", hits |-> <<<<"AX060CG500G">>, <<>>, <<>>>>]

\* The pages the browser tier meets in the service specifications
ServicePages ==
    { [BasePage EXCEPT !.launch = FALSE],
      [BasePage EXCEPT !.search_goto = FALSE],
      [BasePage EXCEPT !.selector1 = FALSE],
      [BasePage EXCEPT !.selector1 = FALSE, !.selector2 = TRUE, !.item = FALSE],
      [BasePage EXCEPT !.link = FALSE],
      [BasePage EXCEPT !.href = ""],
      [BasePage EXCEPT !.detail_goto = FALSE],
      BasePage,
      [BasePage EXCEPT !.title = TitleText],
      [BasePage EXCEPT !.pcode = "1"] }

BaseHtml == [rows |-> <<>>, cands |-> <<>>]

BaseHttp ==
    [search_ok |-> TRUE, product |-> TRUE, link |-> TRUE, href |-> "/info/?pcode=1",
     detail_ok |-> TRUE, html |-> BaseHtml]

\* The pages the HTTP fallback tier meets in the service specifications
ServiceHttpPages ==
    { [BaseHttp EXCEPT !.search_ok = FALSE],
      [BaseHttp EXCEPT !.product = FALSE],
      [BaseHttp EXCEPT !.href = ""],
      [BaseHttp EXCEPT !.detail_ok = FALSE],
      BaseHttp,
      [BaseHttp EXCEPT !.html = [rows |-> <<>>, cands |-> <<None, "AX060CG500G">>]] }

BrowserOutcomes == {BrowserTier(pg) : pg \in ServicePages}

FallbackOutcomes == {_search_with_requests(hp) : hp \in ServiceHttpPages}

-----------------------------------------------------------------------------
(* _search_danawa_internal, the concurrency bridge, the resolver           *)

TierRun(tier, out) == [tier |-> tier, out |-> out]

\* Variant of _search_danawa_internal without the try/except around the fallback
_search_danawa_internal_FallbackRaises(b, h) ==
    IF b.out = "hit"
    THEN [ret |-> b.result, raised |-> FALSE, runs |-> <<TierRun("browser", "hit")>>]
    ELSE [ret |-> IF h.out = "hit" THEN h.result ELSE NoId,
          raised |-> h.out = "raise",
          runs |-> <<TierRun("browser", b.out), TierRun("http", h.out)>>]

\* Variant of _search_danawa_internal that falls back only after an exception
\* of the browser tier
_search_danawa_internal_FallbackOnRaise(b, h) ==
    IF b.out = "hit"
    THEN [ret |-> b.result, raised |-> FALSE, runs |-> <<TierRun("browser", "hit")>>]
    ELSE IF b.out = "raise"
    THEN [ret |-> IF h.out = "hit" THEN h.result ELSE NoId,
          raised |-> FALSE,
          runs |-> <<TierRun("browser", b.out), TierRun("http", h.out)>>]
    ELSE [ret |-> NoId, raised |-> FALSE, runs |-> <<TierRun("browser", b.out)>>]

\* _search_danawa_internal: b is what the browser tier does, h what the HTTP
\* fallback tier would do.  Both tiers' exceptions are caught (354-357, 365-367).
_search_danawa_internal(b, h) ==
    IF b.out = "hit"
    THEN [ret |-> b.result, raised |-> FALSE, runs |-> <<TierRun("browser", "hit")>>]
    ELSE [ret |-> IF h.out = "hit" THEN h.result ELSE NoId,
          raised |-> FALSE,
          runs |-> <<TierRun("browser", b.out), TierRun("http", h.out)>>]

\* One call of search_danawa_and_extract_model.  loop: an asyncio loop is
\* running in the calling thread.  e: what the environment does during the call
\* (b, h: the tiers of the first run; timeout: future.result(timeout=30) gives
\* up; b2, h2: the tiers of a second run).
\* runs lists the tier runs in execution order, final those of the run whose
\* return value the call returns; lost is the return value of an offloaded run
\* that the timeout discarded.
search_danawa_and_extract_model(loop, e) ==
    LET first == _search_danawa_internal(e.b, e.h)
        again == _search_danawa_internal(e.b2, e.h2)
    IN IF ~loop                                   \* except RuntimeError: run directly
       THEN [ret |-> first.ret, raised |-> first.raised, runs |-> first.runs,
             final |-> first.runs,
             offloaded |-> FALSE, timedOut |-> FALSE, lost |-> NoId]
       ELSE IF e.timeout \/ first.raised          \* except Exception: run directly
       THEN [ret |-> again.ret, raised |-> again.raised,
             runs |-> first.runs \o again.runs, final |-> again.runs,
             offloaded |-> TRUE, timedOut |-> e.timeout,
             lost |-> IF e.timeout THEN first.ret ELSE NoId]
       ELSE [ret |-> first.ret, raised |-> FALSE, runs |-> first.runs,
             final |-> first.runs,
             offloaded |-> TRUE, timedOut |-> FALSE, lost |-> NoId]

SearchEnvs ==
    [b : BrowserOutcomes, h : FallbackOutcomes, timeout : BOOLEAN,
     b2 : BrowserOutcomes, h2 : FallbackOutcomes]

\* Every way one search call can go
SearchResults ==
    [loop \in BOOLEAN |-> {search_danawa_and_extract_model(loop, e) : e \in SearchEnvs}]

\* Lines 425-431: for keyword in search_keywords: ... return result / return None.
\* outs[i] is how the search call for the i-th keyword goes, if it is made.
\* tried: the number of search calls made.
\* Variant of TryKeywords that goes on after a result and returns the last one
RECURSIVE TryKeywords_LastHit(_, _, _)
TryKeywords_LastHit(search_keywords, outs, i) ==
    IF i > Len(search_keywords)
    THEN [ret |-> NoId, raised |-> FALSE, tried |-> i - 1]
    ELSE LET rest == TryKeywords_LastHit(search_keywords, outs, i + 1)
         IN IF rest.ret # NoId \/ outs[i].ret = NoId THEN rest
            ELSE [ret |-> outs[i].ret, raised |-> FALSE, tried |-> Len(search_keywords)]

RECURSIVE TryKeywords(_, _, _)
TryKeywords(search_keywords, outs, i) ==
    IF i > Len(search_keywords)
    THEN [ret |-> NoId, raised |-> FALSE, tried |-> i - 1]
    ELSE IF outs[i].raised
    THEN [ret |-> NoId, raised |-> TRUE, tried |-> i]
    ELSE IF outs[i].ret # NoId
    THEN [ret |-> outs[i].ret, raised |-> FALSE, tried |-> i]
    ELSE TryKeywords(search_keywords, outs, i + 1)

\* Lines 421-431: the resolution of a name the cache does not hold
ResolveMiss(product_name, outs) ==
    LET search_keywords == normalize_search_keyword(product_name)
        r == TryKeywords(search_keywords, outs, 1)
    IN [ret |-> r.ret, raised |-> r.raised, hit |-> FALSE,
        keywords |-> search_keywords, tried |-> r.tried,
        calls |-> SubSeq(outs, 1, r.tried)]

\* convert_product_name_to_model against cache c; miss is how the network part
\* goes if it is reached
convert_product_name_to_model(c, product_name, miss) ==
    IF HasKey(c, product_name)
    THEN [ret |-> Get(c, product_name), raised |-> FALSE, hit |-> TRUE,
          keywords |-> <<>>, tried |-> 0, calls |-> <<>>]
    ELSE IF CIMatches(c, product_name) # {}
    THEN [ret |-> c[FirstCI(c, product_name)][2], raised |-> FALSE, hit |-> TRUE,
          keywords |-> <<>>, tried |-> 0, calls |-> <<>>]
    ELSE miss

-----------------------------------------------------------------------------
(* Inputs                                                                  *)

\* Product names: two case variants of a name with a brand rule, one name
\* without
Names == {<<"L", "G", "x">>, <<"l", "g", "x">>, <<"x">>}

\* What a client may send: a name, a padded name, a blank
RawNames == Names \cup {<<"x", SP>>, <<SP>>}

\* Every way the network part of a resolution of name n can go
MissResults ==
    [n \in Names |->
        [loop \in BOOLEAN |->
            {ResolveMiss(n, outs) :
                outs \in [1..Len(normalize_search_keyword(n)) -> SearchResults[loop]]}]]

\* The same without the log of the search calls
Brief(r) == [r EXCEPT !.calls = <<>>]

MissBrief == [n \in Names |-> [loop \in BOOLEAN |-> {Brief(r) : r \in MissResults[n][loop]}]]

-----------------------------------------------------------------------------
(* Calling the collector                                                   *)

\* async def crawl_single_page(url: str, outdir: str): two required parameters
Binds(args) == Len(args) = 2

\* crawl_single_page is declared  async def crawl_single_page(url, outdir).
\* A call binds its arguments first: with any other number of positional
\* arguments Python raises TypeError and no line of the body runs.  When the
\* call binds, crawl is what the body does: it raises, or it ends without a
\* return statement, so the value is None.
crawl_single_page(args, crawl) ==
    IF ~Binds(args)
    THEN [raised |-> TRUE, error |-> "TypeError", value |-> None, ran |-> FALSE]
    ELSE crawl

\* What the body of crawl_single_page can do once it runs
CrawlOutcomes ==
    { [raised |-> TRUE, error |-> "Exception", value |-> None, ran |-> TRUE],
      [raised |-> FALSE, error |-> None, value |-> None, ran |-> TRUE] }

\* len(images): TypeError on None
LenRaises(value) == value = None

-----------------------------------------------------------------------------
(* Request handlers of the HTTP service and of the MCP server              *)

NoOut ==
    [ret |-> NoId, raised |-> FALSE, hit |-> FALSE, keywords |-> <<>>, tried |-> 0,
     calls |-> <<>>]

\* The keyword whose search gave the result of a resolution
ViaKeyword(out) == out.keywords[out.tried]

\* Variant of StoreResult that files the identity under the keyword that found it
StoreResult_UnderKeyword(c, product_name, out) ==
    IF out.hit THEN Put(c, product_name, out.ret) ELSE Put(c, ViaKeyword(out), out.ret)

\* product_name_to_model[product_name] = result   (main.py 155, 305;
\* compare_products.py 66; mcp_server.py _store_mapping)
StoreResult(c, product_name, out) == Put(c, product_name, out.ret)

\* MAX_IMAGES_FOR_LLM = int(os.getenv("LLM_IMAGE_MAX_COUNT", "4"))
MAX_IMAGES_FOR_LLM == 4

\* "image_count": len(images) of a response that has one, -1 otherwise
NoResp == [impl |-> None, status |-> None, key |-> <<>>, url |-> None, called |-> FALSE,
           ran |-> FALSE, image_count |-> -1]

\* POST /crawl (main.py crawl_product_images)
crawl_product_images(c, raw, crawl) ==
    LET stripped == Strip(raw)
    IN IF stripped = <<>>
       THEN [NoResp EXCEPT !.impl = "http", !.status = "400"]
       ELSE IF ~HasKey(c, stripped) /\ CIMatches(c, stripped) = {}
       THEN [NoResp EXCEPT !.impl = "http", !.status = "404", !.key = stripped]
       ELSE LET product_name == IF HasKey(c, stripped) THEN stripped
                                ELSE c[FirstCI(c, stripped)][1]
                product_url == Get(c, product_name).url
                r == crawl_single_page(<<product_url>>, crawl)
            IN [impl |-> "http", key |-> product_name, url |-> product_url,
                called |-> TRUE, ran |-> r.ran,
                status |-> IF r.raised \/ LenRaises(r.value) THEN "500" ELSE "200",
                image_count |-> IF r.raised \/ LenRaises(r.value) THEN -1
                                ELSE Len(r.value)]

\* Variant of _lookup_product_info that falls back on the oldest entry
_lookup_product_info_AnyEntry(c, product_name) ==
    IF CacheLookup(c, product_name) # NoId \/ c = <<>>
    THEN CacheLookup(c, product_name)
    ELSE c[1][2]

\* mcp_server.py _lookup_product_info
_lookup_product_info(c, product_name) == CacheLookup(c, product_name)

\* MCP tool crawl_product_images (mcp_server.py handle_call_tool, _crawl_product)
_crawl_product(c, raw, crawl) ==
    LET cleaned == Strip(raw)
    IN IF cleaned = <<>>
       THEN [NoResp EXCEPT !.impl = "mcp", !.status = "ValueError"]
       ELSE IF _lookup_product_info(c, cleaned) = NoId
       THEN [NoResp EXCEPT !.impl = "mcp", !.status = "ValueError", !.key = cleaned]
       ELSE LET url == _lookup_product_info(c, cleaned).url
                r == crawl_single_page(<<url>>, crawl)
            IN [impl |-> "mcp", key |-> cleaned, url |-> url,
                called |-> TRUE, ran |-> r.ran,
                status |-> IF r.raised THEN r.error
                           ELSE IF LenRaises(r.value) THEN "TypeError" ELSE "ok",
                image_count |-> IF r.raised \/ LenRaises(r.value) THEN -1
                                ELSE Len(r.value)]

Slots == {"t1", "t2"}

IdleReq == [pc |-> "idle", name |-> <<>>, out |-> NoOut, status |-> None]

\* main.py 124-127: a worker thread takes a request; a blank name is a 400
Accept(s, raw) ==
    /\ req[s].pc = "idle"
    /\ req' = [req EXCEPT ![s] =
                 IF Strip(raw) = <<>>
                 THEN [IdleReq EXCEPT !.pc = "done", !.status = "400"]
                 ELSE [IdleReq EXCEPT !.pc = "convert", !.name = Strip(raw)]]
    /\ UNCHANGED <<cache, res, lastPut, crawlResp, cmp, col, opt, fn, sess>>

\* main.py 131: the thread runs convert_product_name_to_model; a worker thread
\* has no running event loop.  The cache is read at this moment only.
Convert(s) ==
    /\ req[s].pc = "convert"
    /\ \E miss \in MissBrief[req[s].name][FALSE] :
          req' = [req EXCEPT ![s].pc = "returned",
                             ![s].out = convert_product_name_to_model(
                                            cache, req[s].name, miss)]
    /\ UNCHANGED <<cache, res, lastPut, crawlResp, cmp, col, opt, fn, sess>>

\* main.py 133-163: 404 without a result, else the write to the cache and 200
Store(s) ==
    /\ req[s].pc = "returned"
    /\ IF req[s].out.raised
       THEN /\ req' = [req EXCEPT ![s].pc = "done", ![s].status = "500"]
            /\ UNCHANGED <<cache, lastPut>>
       ELSE IF req[s].out.ret = NoId
       THEN /\ req' = [req EXCEPT ![s].pc = "done", ![s].status = "404"]
            /\ UNCHANGED <<cache, lastPut>>
       ELSE /\ cache' = StoreResult(cache, req[s].name, req[s].out)
            /\ lastPut' = <<req[s].name, req[s].out.ret>>
            /\ req' = [req EXCEPT ![s].pc = "done", ![s].status = "200"]
    /\ UNCHANGED <<res, crawlResp, cmp, col, opt, fn, sess>>

\* The response is sent; the thread is free again
Finish(s) ==
    /\ req[s].pc = "done"
    /\ req' = [req EXCEPT ![s] = IdleReq]
    /\ UNCHANGED <<cache, res, lastPut, crawlResp, cmp, col, opt, fn, sess>>

Next ==
    \/ \E s \in Slots, raw \in RawNames : Accept(s, raw)
    \/ \E s \in Slots : Convert(s)
    \/ \E s \in Slots : Store(s)
    \/ \E s \in Slots : Finish(s)

-----------------------------------------------------------------------------
(* One resolution at a time, recorded in full                              *)

IdleRes ==
    [pc |-> "idle", name |-> <<>>, loop |-> FALSE, out |-> NoOut, before |-> <<>>,
     status |-> None]

\* A normalize handler strips the name, rejects a blank one and calls
\* convert_product_name_to_model: main.py normalize_product_name in a worker
\* thread (no running loop), mcp_server.py _normalize_product on the event loop.
Resolve(raw, loop) ==
    /\ res.pc = "idle"
    /\ IF Strip(raw) = <<>>
       THEN res' = [IdleRes EXCEPT !.pc = "done", !.loop = loop,
                                   !.status = "rejected", !.before = cache]
       ELSE \E miss \in MissResults[Strip(raw)][loop] :
               res' = [pc |-> "returned", name |-> Strip(raw), loop |-> loop,
                       out |-> convert_product_name_to_model(cache, Strip(raw), miss),
                       before |-> cache, status |-> None]
    /\ UNCHANGED <<cache, req, lastPut, crawlResp, cmp, col, opt, fn, sess>>

\* main.py 133-155, mcp_server.py 199-216
ResolveStore ==
    /\ res.pc = "returned"
    /\ IF res.out.raised
       THEN /\ res' = [res EXCEPT !.pc = "done", !.status = "raised"]
            /\ UNCHANGED <<cache, lastPut>>
       ELSE IF res.out.ret = NoId
       THEN /\ res' = [res EXCEPT !.pc = "done", !.status = "notfound"]
            /\ UNCHANGED <<cache, lastPut>>
       ELSE /\ cache' = StoreResult(cache, res.name, res.out)
            /\ lastPut' = <<res.name, res.out.ret>>
            /\ res' = [res EXCEPT !.pc = "done", !.status = "saved"]
    /\ UNCHANGED <<req, crawlResp, cmp, col, opt, fn, sess>>

\* The response is sent
ResolveFinish ==
    /\ res.pc = "done"
    /\ res' = IdleRes
    /\ crawlResp' = NoResp
    /\ UNCHANGED <<cache, req, lastPut, cmp, col, opt, fn, sess>>

\* POST /crawl, one request at a time
CrawlHttp(raw) ==
    /\ res.pc = "idle"
    /\ \E crawl \in CrawlOutcomes : crawlResp' = crawl_product_images(cache, raw, crawl)
    /\ res' = [IdleRes EXCEPT !.pc = "done", !.status = "crawled", !.before = cache]
    /\ UNCHANGED <<cache, req, lastPut, cmp, col, opt, fn, sess>>

\* MCP tool crawl_product_images, one request at a time
CrawlMcp(raw) ==
    /\ res.pc = "idle"
    /\ \E crawl \in CrawlOutcomes : crawlResp' = _crawl_product(cache, raw, crawl)
    /\ res' = [IdleRes EXCEPT !.pc = "done", !.status = "crawled", !.before = cache]
    /\ UNCHANGED <<cache, req, lastPut, cmp, col, opt, fn, sess>>

NextResolve ==
    \/ \E raw \in RawNames, loop \in BOOLEAN : Resolve(raw, loop)
    \/ ResolveStore
    \/ ResolveFinish
    \/ \E raw \in RawNames : CrawlHttp(raw)
    \/ \E raw \in RawNames : CrawlMcp(raw)

-----------------------------------------------------------------------------
(* The compare operation: POST /compare and the MCP tool compare_products   *)

\* The names a batch is made of: one without a brand rule, one with, a blank
CompareNames == {<<"x">>, <<"L", "G", "x">>, <<SP>>}

\* The longest batch
MaxBatch == 4

Batches == UNION {[1..n -> CompareNames] : n \in 0..MaxBatch}

NotBlank(name) == name # <<>>

\* mcp_server.py handle_call_tool: [str(name).strip() for name in raw if str(name).strip()]
McpNames(raw) == SelectSeq([k \in 1..Len(raw) |-> Strip(raw[k])], NotBlank)

Min(a, b) == IF a < b THEN a ELSE b

\* Variant of FailureDetail that reports the first three reasons only
FailureDetail_Truncated(errors) == SubSeq(errors, 1, Min(3, Len(errors)))

\* all_errors = "\n".join(errors): the detail of the failure holds every reason
FailureDetail(errors) == errors

\* "\n".join(errors[:3]): the message of a partial success holds three at most
ErrorSummary(errors) == SubSeq(errors, 1, Min(3, Len(errors)))

ItemResult(c, outcome, errors, products, resolved) ==
    [cache |-> c, outcome |-> outcome, errors |-> errors, products |-> products,
     resolved |-> resolved]

\* What a compare loop does after a resolution gave out: the write to the cache,
\* the call of the collector with the detail URL alone, len() of its value
CollectItem(c, product_name, out, crawl) ==
    LET stored == StoreResult(c, product_name, out)
        r == crawl_single_page(<<out.ret.url>>, crawl)
    IN IF r.raised
       THEN ItemResult(stored, "collect_failed",
                       <<[name |-> product_name, reason |-> r.error]>>, <<>>, TRUE)
       ELSE IF LenRaises(r.value)
       THEN ItemResult(stored, "collect_failed",
                       <<[name |-> product_name, reason |-> "TypeError"]>>, <<>>, TRUE)
       ELSE ItemResult(stored, "ok", <<>>,
                       <<[product_name |-> product_name, model_name |-> out.ret.model,
                          url |-> out.ret.url]>>, TRUE)

\* compare_products.py 46-88: one turn of the loop of compare_products_logic
compare_products_logic_item(c, raw_name, miss, crawl) ==
    LET product_name == Strip(raw_name)
        out == convert_product_name_to_model(c, product_name, miss)
    IN IF product_name = <<>>
       THEN ItemResult(c, "skipped", <<>>, <<>>, FALSE)
       ELSE IF out.raised
       THEN ItemResult(c, "resolve_failed",
                       <<[name |-> product_name, reason |-> "Exception"]>>, <<>>, FALSE)
       ELSE IF out.ret = NoId
       THEN ItemResult(c, "resolve_failed",
                       <<[name |-> product_name, reason |-> "not_found"]>>, <<>>, FALSE)
       ELSE CollectItem(c, product_name, out, crawl)

\* mcp_server.py 268-293 with _normalize_product 193-216: one turn of the loop
\* of _compare_products
_compare_products_item(c, product_name, miss, crawl) ==
    LET cleaned == Strip(product_name)
        out == convert_product_name_to_model(c, cleaned, miss)
    IN IF cleaned = <<>>
       THEN ItemResult(c, "resolve_failed",
                       <<[name |-> product_name, reason |-> "blank"]>>, <<>>, FALSE)
       ELSE IF out.raised
       THEN ItemResult(c, "resolve_failed",
                       <<[name |-> product_name, reason |-> "Exception"]>>, <<>>, FALSE)
       ELSE IF out.ret = NoId
       THEN ItemResult(c, "resolve_failed",
                       <<[name |-> product_name, reason |-> "not_found"]>>, <<>>, FALSE)
       ELSE CollectItem(c, cleaned, out, crawl)

IdleCmp ==
    [pc |-> "idle", impl |-> None, names |-> <<>>, i |-> 0, products |-> <<>>,
     errors |-> <<>>, items |-> <<>>, raised |-> FALSE, status |-> None,
     detail |-> <<>>, summary |-> <<>>]

\* compare_products.py 36-43, mcp_server.py 364-369 and 262-266: the batch is
\* checked for two names at least
CompareStart ==
    /\ cmp.pc = "idle"
    /\ \E impl \in {"http", "mcp"}, raw \in Batches :
          LET product_names == IF impl = "mcp" THEN McpNames(raw) ELSE raw
          IN cmp' = IF Len(product_names) < 2
                    THEN [IdleCmp EXCEPT !.pc = "done", !.impl = impl,
                                         !.names = product_names, !.raised = TRUE,
                                         !.status = IF impl = "http" THEN "400"
                                                    ELSE "ValueError"]
                    ELSE [IdleCmp EXCEPT !.pc = "loop", !.impl = impl,
                                         !.names = product_names, !.i = 1]
    /\ UNCHANGED <<cache, req, res, lastPut, crawlResp, col, opt, fn, sess>>

\* One turn of the loop.  Both handlers run on the event loop of their server.
CompareItem ==
    /\ cmp.pc = "loop"
    /\ cmp.i <= Len(cmp.names)
    /\ LET raw_name == cmp.names[cmp.i]
       IN \E miss \in (IF Strip(raw_name) \in Names THEN MissBrief[Strip(raw_name)][TRUE]
                       ELSE {NoOut}),
             crawl \in CrawlOutcomes :
            LET r == IF cmp.impl = "http"
                     THEN compare_products_logic_item(cache, raw_name, miss, crawl)
                     ELSE _compare_products_item(cache, raw_name, miss, crawl)
            IN /\ cache' = r.cache
               /\ lastPut' = IF r.resolved THEN <<Strip(raw_name), Get(r.cache, Strip(raw_name))>>
                             ELSE lastPut
               /\ cmp' = [cmp EXCEPT !.i = cmp.i + 1,
                                     !.products = cmp.products \o r.products,
                                     !.errors = cmp.errors \o r.errors,
                                     !.items = Append(cmp.items,
                                                 [name |-> raw_name, outcome |-> r.outcome,
                                                  resolved |-> r.resolved,
                                                  collectable |-> ~crawl.raised])]
    /\ UNCHANGED <<req, res, crawlResp, col, opt, fn, sess>>

\* compare_products.py 91-139, mcp_server.py 295-343: failure when no item
\* succeeded, else the products and a message
CompareEnd ==
    /\ cmp.pc = "loop"
    /\ cmp.i > Len(cmp.names)
    /\ cmp' = IF cmp.products = <<>>
              THEN [cmp EXCEPT !.pc = "done", !.raised = TRUE,
                               !.status = IF cmp.impl = "http" THEN "500" ELSE "ValueError",
                               !.detail = FailureDetail(cmp.errors)]
              ELSE [cmp EXCEPT !.pc = "done", !.raised = FALSE, !.status = "ok",
                               !.summary = ErrorSummary(cmp.errors)]
    /\ UNCHANGED <<cache, req, res, lastPut, crawlResp, col, opt, fn, sess>>

\* The response is sent
CompareFinish ==
    /\ cmp.pc = "done"
    /\ cmp' = IdleCmp
    /\ UNCHANGED <<cache, req, res, lastPut, crawlResp, col, opt, fn, sess>>

NextCompare ==
    \/ CompareStart
    \/ CompareItem
    \/ CompareEnd
    \/ CompareFinish

-----------------------------------------------------------------------------
(* One run of the image collector                                          *)

\* The most images a page holds
MaxImgs == 5

\* Who calls: the command line of app/new_single_page_crawler.py ("cli"), the
\* command line of the older src/new_single_page_crawler.py ("script"), both
\* with url and outdir; a request handler ("orchestrator"), with the url alone
Callers == {"cli", "script", "orchestrator"}

CallArgs(caller) == IF caller = "orchestrator" THEN <<"url">> ELSE <<"url", "outdir">>

\* What the outside does during the run: the step that fails, if any; which
\* page.goto of the two succeeds; the number of images in the containers
CollectEnvs ==
    [fail : {"none", "mkdir", "launch", "context", "collect"},
     loads : {"first", "second", "never"},
     found : 0..MaxImgs]

\* requests.get / raise_for_status / write_bytes of one image
DownloadOutcomes == {"ok", "http_error", "timeout", "write_error"}

EmptyList == "[]"

IdleCol ==
    [pc |-> "idle", caller |-> None, env |-> [fail |-> "none", loads |-> "first", found |-> 0],
     collected |-> FALSE, found |-> 0, idx |-> 0, log |-> <<>>, saved |-> <<>>,
     browser |-> "none", tries |-> 0, raised |-> FALSE, error |-> None, value |-> None]

\* Variant of FileIndex that numbers the files by the count of files written
FileIndex_Counter(idx, saved) == Len(saved) + 1

\* filename = f"result_{idx:03d}{ext}" with idx from enumerate(imgs, start=1)
FileIndex(idx, saved) == idx

\* An exception leaves the collector; the browser, if open, is closed on the way
CollectRaise(c, error) ==
    [c EXCEPT !.pc = "done", !.raised = TRUE, !.error = error,
              !.browser = IF c.browser = "open" THEN "closed" ELSE c.browser]

\* Variant of DownloadStep in which a failed download ends the run
DownloadStep_AbortOnFailure(c, outcome) ==
    IF outcome = "ok"
    THEN [c EXCEPT !.log = Append(c.log, outcome),
                   !.saved = Append(c.saved, FileIndex(c.idx, c.saved)),
                   !.idx = c.idx + 1]
    ELSE CollectRaise([c EXCEPT !.log = Append(c.log, outcome)], "Exception")

\* One turn of  for idx, img_url in enumerate(imgs, start=1): try ... except
DownloadStep(c, outcome) ==
    [c EXCEPT !.log = Append(c.log, outcome),
              !.saved = IF outcome = "ok"
                        THEN Append(c.saved, FileIndex(c.idx, c.saved))
                        ELSE c.saved,
              !.idx = c.idx + 1]

\* The call binds its arguments, or raises TypeError before the body starts
CollectCall ==
    /\ col.pc = "idle"
    /\ \E caller \in Callers, env \in CollectEnvs :
          col' = IF Binds(CallArgs(caller))
                 THEN [IdleCol EXCEPT !.pc = "mkdir", !.caller = caller, !.env = env]
                 ELSE [IdleCol EXCEPT !.pc = "done", !.caller = caller, !.env = env,
                                      !.raised = TRUE, !.error = "TypeError"]
    /\ UNCHANGED <<cache, req, res, lastPut, crawlResp, cmp, opt, fn, sess>>

\* Path(outdir).mkdir(parents=True, exist_ok=True)
Mkdir ==
    /\ col.pc = "mkdir"
    /\ col' = IF col.env.fail = "mkdir" THEN CollectRaise(col, "Exception")
              ELSE [col EXCEPT !.pc = "launch"]
    /\ UNCHANGED <<cache, req, res, lastPut, crawlResp, cmp, opt, fn, sess>>

\* p.chromium.launch(headless=True)
Launch ==
    /\ col.pc = "launch"
    /\ col' = IF col.env.fail = "launch" THEN CollectRaise(col, "Exception")
              ELSE [col EXCEPT !.pc = "context", !.browser = "open"]
    /\ UNCHANGED <<cache, req, res, lastPut, crawlResp, cmp, opt, fn, sess>>

\* browser.new_context(...), context.new_page()
NewContext ==
    /\ col.pc = "context"
    /\ col' = IF col.env.fail = "context" THEN CollectRaise(col, "Exception")
              ELSE [col EXCEPT !.pc = "goto"]
    /\ UNCHANGED <<cache, req, res, lastPut, crawlResp, cmp, opt, fn, sess>>

\* page.goto: the app collector tries domcontentloaded and then load, the older
\* script tries networkidle once
Goto ==
    /\ col.pc = "goto"
    /\ col' = IF col.env.loads = "first"
              THEN [col EXCEPT !.pc = "collect", !.tries = 1]
              ELSE IF col.caller = "script"
              THEN CollectRaise([col EXCEPT !.tries = 1], "Exception")
              ELSE IF col.env.loads = "second"
              THEN [col EXCEPT !.pc = "collect", !.tries = 2]
              ELSE CollectRaise([col EXCEPT !.tries = 2], "Exception")
    /\ UNCHANGED <<cache, req, res, lastPut, crawlResp, cmp, opt, fn, sess>>

\* imgs = await collect_images(page)
Collect ==
    /\ col.pc = "collect"
    /\ col' = IF col.env.fail = "collect" THEN CollectRaise(col, "Exception")
              ELSE [col EXCEPT !.pc = "download", !.collected = TRUE,
                               !.found = col.env.found, !.idx = 1]
    /\ UNCHANGED <<cache, req, res, lastPut, crawlResp, cmp, opt, fn, sess>>

\* The download of the next image
Download ==
    /\ col.pc = "download"
    /\ col.idx <= col.found
    /\ \E outcome \in DownloadOutcomes : col' = DownloadStep(col, outcome)
    /\ UNCHANGED <<cache, req, res, lastPut, crawlResp, cmp, opt, fn, sess>>

\* After the loop the browser is closed and the function ends without a return
\* statement
CollectReturn ==
    /\ col.pc = "download"
    /\ col.idx > col.found
    /\ col' = [col EXCEPT !.pc = "done", !.browser = "closed", !.value = None]
    /\ UNCHANGED <<cache, req, res, lastPut, crawlResp, cmp, opt, fn, sess>>

CollectFinish ==
    /\ col.pc = "done"
    /\ col' = IdleCol
    /\ UNCHANGED <<cache, req, res, lastPut, crawlResp, cmp, opt, fn, sess>>

NextCrawl ==
    \/ CollectCall
    \/ Mkdir
    \/ Launch
    \/ NewContext
    \/ Goto
    \/ Collect
    \/ Download
    \/ CollectReturn
    \/ CollectFinish

-----------------------------------------------------------------------------
(* optimize_image_bytes, step by step                                      *)

\* The longest byte string
MaxLen == 3

Bytes == {0, 255}

ByteStrings == UNION {[1..n -> Bytes] : n \in 0..MaxLen}

\* What img.save may write: one byte string of every length from 1 on
EncodedStrings == {[i \in 1..n |-> 255] : n \in 1..(MaxLen + 1)}

MimeTypes == {"image/png", "image/jpeg"}

\* What Image.open makes of the bytes: an exception, or an image
Undecodable == [ok |-> FALSE, mode |-> None, width |-> 0, height |-> 0]

Decodings ==
    {Undecodable} \cup
    [ok : {TRUE}, mode : {"RGB", "RGBA"}, width : {2, 4}, height : {1, 3}]

\* The Pillow step that raises during the call, if any
Breaks == {"none", "convert", "resize"}

\* Image.resize refuses a side of 0
ResizeFails(width, height) == width <= 0 \/ height <= 0

DimensionLimits == {2, 4}

\* quality = 85
StartQuality == 85

\* while quality >= 50 ... or quality == 50
MinQuality == 50

\* quality -= 5
QualityStep == 5

Max(a, b) == IF a > b THEN a ELSE b

\* Variant of WithinBudget with a strict comparison
WithinBudget_Strict(original_size, max_bytes) == original_size < max_bytes

\* if original_size <= max_bytes
WithinBudget(original_size, max_bytes) == original_size <= max_bytes

\* Variant of Scaled that leaves the side as it is
Scaled_NoShrink(side, max_dimension, longest_side) == side

\* int(img.width * scale) with scale = max_dimension / float(longest_side)
Scaled(side, max_dimension, longest_side) == (side * max_dimension) \div longest_side

\* Variant of NextQuality that goes down by ten
NextQuality_ByTen(quality) == quality - 10

\* quality -= 5
NextQuality(quality) == quality - QualityStep

\* The returned tuple, and the size in pixels of the image the returned bytes hold
NoOutput ==
    [bytes |-> <<>>, mime |-> None, original_size |-> 0, optimized_size |-> 0,
     width |-> 0, height |-> 0]

IdleOpt ==
    [pc |-> "idle", raw_bytes |-> <<>>, mime_type |-> None, max_bytes |-> 0,
     max_dimension |-> 0, decoding |-> Undecodable, breaks |-> "none",
     img |-> Undecodable, quality |-> 0, buffer |-> <<>>, optimized_size |-> 0,
     decodes |-> 0, converts |-> 0, resizes |-> 0, encodes |-> 0, tried |-> <<>>,
     path |-> None, failed_at |-> None, raised |-> FALSE, out |-> NoOutput]

\* return raw_bytes, mime_type, original_size, original_size
Original(o) ==
    [bytes |-> o.raw_bytes, mime |-> o.mime_type, original_size |-> Len(o.raw_bytes),
     optimized_size |-> Len(o.raw_bytes),
     width |-> o.decoding.width, height |-> o.decoding.height]

\* Variant of Fallback in which the exception leaves the function
Fallback_Raises(o, step) ==
    [o EXCEPT !.pc = "done", !.path = "raised", !.failed_at = step, !.raised = TRUE]

\* except Exception: return raw_bytes, mime_type, original_size, original_size
Fallback(o, step) ==
    [o EXCEPT !.pc = "done", !.path = "fallback", !.failed_at = step,
              !.out = Original(o)]

\* image_encoder.py 74-76: the call, and the return of the input when it is
\* within the budget
OptCall ==
    /\ opt.pc = "idle"
    /\ \E raw_bytes \in ByteStrings, mime_type \in MimeTypes, max_bytes \in 0..MaxLen,
          max_dimension \in DimensionLimits, decoding \in Decodings, breaks \in Breaks :
          LET o == [IdleOpt EXCEPT !.raw_bytes = raw_bytes, !.mime_type = mime_type,
                                   !.max_bytes = max_bytes, !.max_dimension = max_dimension,
                                   !.decoding = decoding, !.breaks = breaks]
          IN opt' = IF WithinBudget(Len(raw_bytes), max_bytes)
                    THEN [o EXCEPT !.pc = "done", !.path = "as_is", !.out = Original(o)]
                    ELSE [o EXCEPT !.pc = "open"]
    /\ UNCHANGED <<cache, req, res, lastPut, crawlResp, cmp, col, fn, sess>>

\* image_encoder.py 79-91: Image.open, convert, resize; an exception gives the
\* input back
OptOpen ==
    /\ opt.pc = "open"
    /\ LET d == opt.decoding
           longest_side == Max(d.width, d.height)
           shrink == longest_side > opt.max_dimension
           converted == d.mode \notin {"RGB", "L"}
           new_width == Scaled(d.width, opt.max_dimension, longest_side)
           new_height == Scaled(d.height, opt.max_dimension, longest_side)
       IN opt' =
            IF ~d.ok
            THEN Fallback([opt EXCEPT !.decodes = 1], "open")
            ELSE IF converted /\ opt.breaks = "convert"
            THEN Fallback([opt EXCEPT !.decodes = 1, !.converts = 1], "convert")
            ELSE IF shrink /\ (opt.breaks = "resize" \/ ResizeFails(new_width, new_height))
            THEN Fallback([opt EXCEPT !.decodes = 1, !.resizes = 1,
                                      !.converts = IF converted THEN 1 ELSE 0], "resize")
            ELSE [opt EXCEPT
                    !.pc = "save", !.decodes = 1,
                    !.converts = IF converted THEN 1 ELSE 0,
                    !.resizes = IF shrink THEN 1 ELSE 0,
                    !.img = [ok |-> TRUE, mode |-> IF converted THEN "RGB" ELSE d.mode,
                             width |-> IF shrink THEN new_width ELSE d.width,
                             height |-> IF shrink THEN new_height ELSE d.height],
                    !.quality = StartQuality,
                    !.optimized_size = Len(opt.raw_bytes)]
    /\ UNCHANGED <<cache, req, res, lastPut, crawlResp, cmp, col, fn, sess>>

\* image_encoder.py 93-100: one turn of  while quality >= 50: img.save at the
\* current quality; data is what the encoder writes, failed an exception of the
\* encoder
OptSave ==
    /\ opt.pc = "save"
    /\ \E data \in EncodedStrings, failed \in BOOLEAN :
          opt' = IF opt.quality < MinQuality
                 THEN [opt EXCEPT !.pc = "return"]
                 ELSE IF failed
                 THEN Fallback([opt EXCEPT !.encodes = opt.encodes + 1], "save")
                 ELSE LET o == [opt EXCEPT
                                  !.encodes = opt.encodes + 1, !.buffer = data,
                                  !.optimized_size = Len(data),
                                  !.tried = Append(opt.tried,
                                               [quality |-> opt.quality,
                                                fits |-> Len(data) <= opt.max_bytes])]
                      IN IF Len(data) <= opt.max_bytes \/ opt.quality = MinQuality
                         THEN [o EXCEPT !.pc = "return"]
                         ELSE [o EXCEPT !.quality = NextQuality(opt.quality)]
    /\ UNCHANGED <<cache, req, res, lastPut, crawlResp, cmp, col, fn, sess>>

\* return buffer.getvalue(), "image/jpeg", original_size, optimized_size
OptReturn ==
    /\ opt.pc = "return"
    /\ opt' = [opt EXCEPT !.pc = "done", !.path = "encoded",
                          !.out = [bytes |-> opt.buffer, mime |-> "image/jpeg",
                                   original_size |-> Len(opt.raw_bytes),
                                   optimized_size |-> opt.optimized_size,
                                   width |-> opt.img.width, height |-> opt.img.height]]
    /\ UNCHANGED <<cache, req, res, lastPut, crawlResp, cmp, col, fn, sess>>

OptFinish ==
    /\ opt.pc = "done"
    /\ opt' = IdleOpt
    /\ UNCHANGED <<cache, req, res, lastPut, crawlResp, cmp, col, fn, sess>>

NextOpt ==
    \/ OptCall
    \/ OptOpen
    \/ OptSave
    \/ OptReturn
    \/ OptFinish

-----------------------------------------------------------------------------

(* The pure functions, applied to inputs                                   *)

IdleFn == [op |-> None, parts |-> <<>>, input |-> <<>>, output |-> <<>>]

\* The pieces product names are made of
NameChunks ==
    {SAMSUNG, JEONJA, <<"L", "G">>, <<"l", "g">>, <<"el", "ji">>, <<SP>>, <<"x">>}

\* The most pieces in a name
MaxChunks == 4

RECURSIVE Concat(_)
Concat(chunks) == IF chunks = <<>> THEN <<>> ELSE Head(chunks) \o Concat(Tail(chunks))

KeywordInputs == {Concat(chunks) : chunks \in UNION {[1..n -> NameChunks] : n \in 0..MaxChunks}}

\* search_keywords = normalize_search_keyword(product_name)
KeywordsCall ==
    /\ fn.op = None
    /\ \E product_name \in KeywordInputs :
          fn' = [op |-> "normalize_search_keyword", parts |-> <<>>,
                 input |-> product_name,
                 output |-> normalize_search_keyword(product_name)]
    /\ UNCHANGED <<cache, req, res, lastPut, crawlResp, cmp, col, opt, sess>>

\* The value is used and dropped
FnReturn ==
    /\ fn.op # None
    /\ fn' = IdleFn
    /\ UNCHANGED <<cache, req, res, lastPut, crawlResp, cmp, col, opt, sess>>

NextKeywords ==
    \/ KeywordsCall
    \/ FnReturn

(* choose_from_srcset: the srcset attribute is a sequence of characters    *)

\* srcset.split(",")
RECURSIVE SplitComma(_)
SplitComma(s) ==
    IF \E i \in 1..Len(s) : s[i] = ","
    THEN LET i == CHOOSE k \in 1..Len(s) :
                      s[k] = "," /\ \A h \in 1..(k - 1) : s[h] # ","
         IN <<SubSeq(s, 1, i - 1)>> \o SplitComma(SubSeq(s, i + 1, Len(s)))
    ELSE <<s>>

\* part.rsplit(" ", 1) of a part that holds a blank: <<u, sz>>
RSplitSpace(part) ==
    LET i == CHOOSE k \in 1..Len(part) :
                 part[k] = SP /\ \A h \in (k + 1)..Len(part) : part[h] # SP
    IN <<SubSeq(part, 1, i - 1), SubSeq(part, i + 1, Len(part))>>

Digits == {"0", "1", "2", "3", "4", "5", "6", "7", "8", "9"}

DigitValue(ch) ==
    CASE ch = "0" -> 0 [] ch = "1" -> 1 [] ch = "2" -> 2 [] ch = "3" -> 3
      [] ch = "4" -> 4 [] ch = "5" -> 5 [] ch = "6" -> 6 [] ch = "7" -> 7
      [] ch = "8" -> 8 [] ch = "9" -> 9

\* The group (\d+) at the start of sz, <<>> when sz does not start with a digit
RECURSIVE LeadingDigits(_)
LeadingDigits(sz) ==
    IF sz # <<>> /\ Head(sz) \in Digits
    THEN <<Head(sz)>> \o LeadingDigits(Tail(sz))
    ELSE <<>>

\* int(m.group(1))
RECURSIVE ToInt(_)
ToInt(digits) ==
    IF digits = <<>> THEN 0
    ELSE ToInt(SubSeq(digits, 1, Len(digits) - 1)) * 10 + DigitValue(digits[Len(digits)])

\* weight = int(m.group(1)) if m else 0, with m = re.match(r"(\d+)(w|x)", sz)
Weight(sz) ==
    LET digits == LeadingDigits(sz)
    IN IF digits # <<>> /\ Len(sz) > Len(digits) /\ sz[Len(digits) + 1] \in {"w", "x"}
       THEN ToInt(digits)
       ELSE 0

\* The pair appended to cands for one part of the split
Candidate(raw_part) ==
    LET part == Strip(raw_part)
    IN IF Contains(part, <<SP>>)
       THEN [weight |-> Weight(RSplitSpace(part)[2]), url |-> Strip(RSplitSpace(part)[1])]
       ELSE [weight |-> 0, url |-> part]

\* One step of the stable sort, ties ordered the other way round
InsertByWeight_TiesLast(cand, sorted) ==
    LET before == {k \in 1..Len(sorted) : sorted[k].weight > cand.weight}
    IN SubSeq(sorted, 1, Cardinality(before)) \o <<cand>>
          \o SubSeq(sorted, Cardinality(before) + 1, Len(sorted))

\* One step of cands.sort(key=lambda t: t[0], reverse=True): the sort is
\* stable, so a pair goes behind every pair of the same or a greater weight
\* that came before it
InsertByWeight(cand, sorted) ==
    LET before == {k \in 1..Len(sorted) : sorted[k].weight >= cand.weight}
    IN SubSeq(sorted, 1, Cardinality(before)) \o <<cand>>
          \o SubSeq(sorted, Cardinality(before) + 1, Len(sorted))

RECURSIVE SortByWeight(_)
SortByWeight(cands) ==
    IF cands = <<>> THEN <<>>
    ELSE InsertByWeight(cands[Len(cands)], SortByWeight(SubSeq(cands, 1, Len(cands) - 1)))

choose_from_srcset(srcset) ==
    LET parts == SplitComma(srcset)
        cands == SortByWeight([k \in 1..Len(parts) |-> Candidate(parts[k])])
    IN IF cands # <<>> THEN cands[1].url ELSE <<>>

\* The candidates a srcset attribute is written from: a URL and a descriptor
Urls == {<<"a">>, <<"b">>, <<"c">>}

Descriptors ==
    {<<>>, <<SP, "1", "w">>, <<SP, "2", "w">>, <<SP, "1", "2", "x">>,
     <<SP, "1", ".", "5", "x">>}

\* The most candidates in an attribute
MaxCands == 3

RECURSIVE JoinCandidates(_)
JoinCandidates(parts) ==
    IF parts = <<>> THEN <<>>
    ELSE IF Len(parts) = 1 THEN parts[1].url \o parts[1].descriptor
    ELSE parts[1].url \o parts[1].descriptor \o <<",", SP>> \o JoinCandidates(Tail(parts))

SrcsetInputs == UNION {[1..n -> [url : Urls, descriptor : Descriptors]] : n \in 0..MaxCands}

\* src = choose_from_srcset(srcset)
SrcsetCall ==
    /\ fn.op = None
    /\ \E parts \in SrcsetInputs :
          fn' = [op |-> "choose_from_srcset", parts |-> parts,
                 input |-> JoinCandidates(parts),
                 output |-> choose_from_srcset(JoinCandidates(parts))]
    /\ UNCHANGED <<cache, req, res, lastPut, crawlResp, cmp, col, opt, sess>>

NextSrcset ==
    \/ SrcsetCall
    \/ FnReturn

(* The browser tier on detail pages: texts are sequences of words (maximal *)
(* runs of word characters), "x" a word without capitals and digits only,  *)
(* "xAX060CG500G" a code written together with such characters             *)

\* re.findall of the p-th pattern of lines 271-275 and 291-295 finds the word
TextPatternMatches(p, word) ==
    CASE p = 1 -> word \in {"AX060CG500G", "AP70F03102RTD", "AB1234", "SAMSUNG", "SPECVALUE",
                             "AIRCONDITIONER"}
      [] p = 2 -> word \in {"AX060CG500G", "AP70F03102RTD", "AB1234"}
      [] p = 3 -> word \in {"AX060CG500G", "AP70F03102RTD"}

\* re.findall of the p-th pattern of lines 315-319 finds the word
PagePatternMatches(p, word) ==
    CASE p = 1 -> word \in {"AP70F03102RTD"}
      [] p = 2 -> word \in {"AP70F03102RTD"}
      [] p = 3 -> word \in {"AX060CG500G", "AP70F03102RTD", "SPECVALUE", "AIRCONDITIONER"}

TextHits(words) ==
    [p \in 1..3 |-> SelectSeq(words, LAMBDA word : TextPatternMatches(p, word))]

PageHits(words) ==
    [p \in 1..3 |-> SelectSeq(words, LAMBDA word : PagePatternMatches(p, word))]

TitleTexts ==
    {<<"x", "AX060CG500G">>, <<"SAMSUNG", "AX060CG500G">>, <<"xAX060CG500G">>, <<"x">>}

InfoTexts == {<<"x">>, <<"AB1234">>}

\* What the page shows besides its title and its summary block
RestTexts == {<<>>, <<"SPECVALUE", "AX060CG500G">>, <<"AIRCONDITIONER", "AP70F03102RTD">>}

SpecRow(readable, label_match, value) ==
    [th |-> TRUE, td |-> TRUE, readable |-> readable, label_match |-> label_match,
     value |-> value]

SpecTables ==
    {<<>>,
     <<SpecRow(TRUE, TRUE, "SPECVALUE")>>,
     <<SpecRow(TRUE, TRUE, "")>>,
     <<SpecRow(TRUE, FALSE, "SPECVALUE")>>,
     <<SpecRow(FALSE, TRUE, "SPECVALUE"), SpecRow(TRUE, TRUE, "AB1234")>>}

\* The link of the first product and the pcode of the URL the browser is at
\* after following it (they differ when the marketplace redirects); the last
\* is a link without an href, which leads nowhere
Addresses ==
    {[href |-> "/info/?pcode=1", pcode |-> "1"], [href |-> "/info/2", pcode |-> None],
     [href |-> "/info/?pcode=1", pcode |-> None], [href |-> "/info/2", pcode |-> "2"],
     [href |-> "", pcode |-> None]}

\* A located element: absent, unreadable within the timeout, or read
Element(state, words) ==
    [state |-> state, hits |-> IF state = "text" THEN TextHits(words) ELSE NoHits]

\* The detail page made of these texts; the page text holds all of them
DetailPage(t) ==
    [BasePage EXCEPT
        !.href = t.address.href, !.pcode = t.address.pcode, !.rows = t.rows,
        !.title = Element(t.title_state, t.title),
        !.info = Element(t.info_state, t.info),
        !.body = [state |-> t.body_state,
                  hits |-> IF t.body_state = "text"
                           THEN PageHits((IF t.title_state = "absent" THEN <<>> ELSE t.title)
                                         \o (IF t.info_state = "absent" THEN <<>> ELSE t.info)
                                         \o t.rest)
                           ELSE NoHits]]

DetailTexts ==
    [address : Addresses, rows : SpecTables,
     title_state : {"absent", "timeout", "text"}, title : TitleTexts,
     info_state : {"absent", "text"}, info : InfoTexts,
     body_state : {"error", "text"}, rest : RestTexts]

\* playwright_result of lines 175-357 on a search whose first product has
\* this detail page
TierCall ==
    /\ fn.op = None
    /\ \E t \in DetailTexts :
          fn' = [op |-> "browser_tier", parts |-> t, input |-> DetailPage(t),
                 output |-> BrowserTier(DetailPage(t))]
    /\ UNCHANGED <<cache, req, res, lastPut, crawlResp, cmp, col, opt, sess>>

NextTier ==
    \/ TierCall
    \/ FnReturn

-----------------------------------------------------------------------------
(* Browser sessions.  A resolve call runs _search_danawa_internal, a       *)
(* collect call the collector of the application module or of the script.  *)

\* w1, w2: server worker threads, which run the sync handler of /normalize;
\* loop: the event loop thread, which runs the async handlers one at a time
\* and is blocked while a resolve call is in progress; cli: the collector
\* started from the command line, a process of its own
ServerWorkers == {"w1", "w2", "loop"}

Workers == ServerWorkers \cup {"cli"}

JobsOf(w) == IF w = "cli" THEN {"collect_app", "collect_script"} ELSE {"resolve"}

IdleSess ==
    [pc |-> "idle", job |-> None, offloaded |-> FALSE, attempt |-> 0,
     browser |-> "none", context |-> "none", page |-> "none",
     exc |-> FALSE, timed_out |-> FALSE]

Closed(handle) == IF handle = "open" THEN "closed" ELSE handle

\* browser.close() closes the browser with its contexts and pages
CloseHandles(s) ==
    [s EXCEPT !.browser = Closed(@), !.context = Closed(@), !.page = Closed(@)]

\* Variant of ReleaseAll in which leaving the playwright block releases nothing
ReleaseAll_Nothing(s) == s

\* Leaving  with sync_playwright() / async with async_playwright()  stops the
\* driver, which ends every browser it launched, with its contexts and pages
ReleaseAll(s) == CloseHandles(s)

\* Where an exception raised inside the playwright block goes first: the
\* finally clause of the resolver, the end of the block for the collectors
AfterFailure(s) ==
    [s EXCEPT !.exc = TRUE,
              !.pc = IF s.job = "resolve" THEN "close_context" ELSE "exit"]

\* A call arrives.  On the event loop the resolver is handed to a pool of one
\* worker thread made for this call (lines 386-388); elsewhere it runs in place.
SessCall(w) ==
    /\ sess[w].pc = "idle"
    /\ IF w = "cli" THEN \A v \in ServerWorkers : sess[v].pc = "idle"
       ELSE sess["cli"].pc = "idle"
    /\ \E job \in JobsOf(w) :
          sess' = [sess EXCEPT ![w] = [IdleSess EXCEPT !.pc = "enter", !.job = job,
                                                       !.attempt = 1,
                                                       !.offloaded = (w = "loop")]]
    /\ UNCHANGED <<cache, req, res, lastPut, crawlResp, cmp, col, opt, fn>>

\* with sync_playwright() as playwright: the sync API refuses to start on a
\* thread whose event loop is running, and the driver may fail to start; the
\* resolver catches either (354-357), the collectors let it out
SessEnter(w) ==
    /\ sess[w].pc = "enter"
    /\ \E ok \in BOOLEAN :
          sess' = [sess EXCEPT ![w] =
                     IF ok /\ ~(w = "loop" /\ ~sess[w].offloaded)
                     THEN [@ EXCEPT !.pc = "launch"]
                     ELSE [@ EXCEPT !.pc = "returned", !.exc = TRUE]]
    /\ UNCHANGED <<cache, req, res, lastPut, crawlResp, cmp, col, opt, fn>>

\* browser = playwright.chromium.launch(headless=True)
SessLaunch(w) ==
    /\ sess[w].pc = "launch"
    /\ \E ok \in BOOLEAN :
          sess' = [sess EXCEPT ![w] =
                     IF ok THEN [@ EXCEPT !.browser = "open", !.pc = "context"]
                     ELSE AfterFailure(@)]
    /\ UNCHANGED <<cache, req, res, lastPut, crawlResp, cmp, col, opt, fn>>

\* context = browser.new_context(...)
SessNewContext(w) ==
    /\ sess[w].pc = "context"
    /\ \E ok \in BOOLEAN :
          sess' = [sess EXCEPT ![w] =
                     IF ok THEN [@ EXCEPT !.context = "open", !.pc = "page"]
                     ELSE AfterFailure(@)]
    /\ UNCHANGED <<cache, req, res, lastPut, crawlResp, cmp, col, opt, fn>>

\* page = context.new_page()
SessNewPage(w) ==
    /\ sess[w].pc = "page"
    /\ \E ok \in BOOLEAN :
          sess' = [sess EXCEPT ![w] =
                     IF ok THEN [@ EXCEPT !.page = "open", !.pc = "work"]
                     ELSE AfterFailure(@)]
    /\ UNCHANGED <<cache, req, res, lastPut, crawlResp, cmp, col, opt, fn>>

\* Navigation, waits, extraction, downloads: done, or a timeout or another
\* exception at some step
SessWork(w) ==
    /\ sess[w].pc = "work"
    /\ \E ok \in BOOLEAN :
          sess' = [sess EXCEPT ![w] =
                     IF ok
                     THEN [@ EXCEPT !.pc = IF sess[w].job = "collect_app" THEN "close_page"
                                           ELSE "close_context"]
                     ELSE AfterFailure(@)]
    /\ UNCHANGED <<cache, req, res, lastPut, crawlResp, cmp, col, opt, fn>>

\* if page: try: await page.close() except Exception: pass
SessClosePage(w) ==
    /\ sess[w].pc = "close_page"
    /\ \E ok \in BOOLEAN :
          sess' = [sess EXCEPT ![w] =
                     [@ EXCEPT !.page = IF ok THEN Closed(@) ELSE @,
                               !.pc = "close_context"]]
    /\ UNCHANGED <<cache, req, res, lastPut, crawlResp, cmp, col, opt, fn>>

\* context.close(), which closes the pages of the context.  The resolver and
\* the application collector skip a context that was never made and swallow a
\* failure; in the script a failure leaves the block.
SessCloseContext(w) ==
    /\ sess[w].pc = "close_context"
    /\ \E ok \in BOOLEAN :
          sess' = [sess EXCEPT ![w] =
                     IF sess[w].context = "none" THEN [@ EXCEPT !.pc = "close_browser"]
                     ELSE IF ok
                     THEN [@ EXCEPT !.context = Closed(@), !.page = Closed(@),
                                    !.pc = "close_browser"]
                     ELSE IF sess[w].job = "collect_script" THEN AfterFailure(@)
                     ELSE [@ EXCEPT !.pc = "close_browser"]]
    /\ UNCHANGED <<cache, req, res, lastPut, crawlResp, cmp, col, opt, fn>>

\* browser.close(), which closes the contexts and pages of the browser
SessCloseBrowser(w) ==
    /\ sess[w].pc = "close_browser"
    /\ \E ok \in BOOLEAN :
          sess' = [sess EXCEPT ![w] =
                     IF sess[w].browser = "none" THEN [@ EXCEPT !.pc = "exit"]
                     ELSE IF ok
                     THEN [CloseHandles(@) EXCEPT !.pc = "exit"]
                     ELSE IF sess[w].job = "collect_script" THEN AfterFailure(@)
                     ELSE [@ EXCEPT !.pc = "exit"]]
    /\ UNCHANGED <<cache, req, res, lastPut, crawlResp, cmp, col, opt, fn>>

\* future.result(timeout=30) gives up on the offloaded resolver, which runs on
\* (line 388); leaving the  with ThreadPoolExecutor  block waits for it
SessTimeout(w) ==
    /\ sess[w].offloaded
    /\ ~sess[w].timed_out
    /\ sess[w].pc \in {"enter", "launch", "context", "page", "work",
                       "close_context", "close_browser", "exit"}
    /\ sess' = [sess EXCEPT ![w].timed_out = TRUE]
    /\ UNCHANGED <<cache, req, res, lastPut, crawlResp, cmp, col, opt, fn>>

\* The playwright block is left.  The application collector then runs its
\* except clause (166-184); the bridge, after a timeout, runs the resolver
\* again on the calling thread (392-395).
SessExit(w) ==
    /\ sess[w].pc = "exit"
    /\ sess' = [sess EXCEPT ![w] =
                  IF sess[w].job = "collect_app" /\ sess[w].exc
                  THEN [ReleaseAll(@) EXCEPT !.pc = "cleanup"]
                  ELSE IF sess[w].offloaded /\ sess[w].timed_out
                  THEN [ReleaseAll(@) EXCEPT !.pc = "enter", !.attempt = 2,
                                             !.offloaded = FALSE, !.exc = FALSE]
                  ELSE [ReleaseAll(@) EXCEPT !.pc = "returned"]]
    /\ UNCHANGED <<cache, req, res, lastPut, crawlResp, cmp, col, opt, fn>>

\* except Exception: close page, context and browser, swallowing failures; raise
SessCleanup(w) ==
    /\ sess[w].pc = "cleanup"
    /\ \E ok \in BOOLEAN :
          sess' = [sess EXCEPT ![w] =
                     [(IF ok THEN CloseHandles(@) ELSE @) EXCEPT !.pc = "returned"]]
    /\ UNCHANGED <<cache, req, res, lastPut, crawlResp, cmp, col, opt, fn>>

\* The call has returned or raised; the thread takes the next one
SessFinish(w) ==
    /\ sess[w].pc = "returned"
    /\ sess' = [sess EXCEPT ![w] = IdleSess]
    /\ UNCHANGED <<cache, req, res, lastPut, crawlResp, cmp, col, opt, fn>>

NextSessions ==
    \E w \in Workers :
        \/ SessCall(w)
        \/ SessEnter(w)
        \/ SessLaunch(w)
        \/ SessNewContext(w)
        \/ SessNewPage(w)
        \/ SessWork(w)
        \/ SessClosePage(w)
        \/ SessCloseContext(w)
        \/ SessCloseBrowser(w)
        \/ SessTimeout(w)
        \/ SessExit(w)
        \/ SessCleanup(w)
        \/ SessFinish(w)

-----------------------------------------------------------------------------
Init ==
    /\ cache = <<>>
    /\ req = [s \in Slots |-> IdleReq]
    /\ res = IdleRes
    /\ lastPut = <<>>
    /\ crawlResp = NoResp
    /\ fn = IdleFn
    /\ sess = [w \in Workers |-> IdleSess]
    /\ cmp = IdleCmp
    /\ col = IdleCol
    /\ opt = IdleOpt

Spec == Init /\ [][Next]_vars

SpecResolve == Init /\ [][NextResolve]_vars

SpecCompare == Init /\ [][NextCompare]_vars

SpecCrawl == Init /\ [][NextCrawl]_vars

SpecOpt == Init /\ [][NextOpt]_vars

SpecKeywords == Init /\ [][NextKeywords]_vars

SpecSrcset == Init /\ [][NextSrcset]_vars

SpecTier == Init /\ [][NextTier]_vars

SpecSessions == Init /\ [][NextSessions]_vars

-----------------------------------------------------------------------------
(* Properties of the resolver and of the identity cache                    *)

\* The tier runs of a search call that count for its return value
NoTierHit(call) == \A j \in 1..Len(call.final) : call.final[j].out # "hit"

CaseEqualKeys(c, name) == {i \in 1..Len(c) : Lower(c[i][1]) = Lower(name)}

\* C2 (SpecResolve).  When the cache holds a key equal to the requested name,
\* exactly or ignoring case, convert_product_name_to_model returns a cached
\* identity of such a key (the one of the exact key when there is one), makes
\* no keyword variant and no search call (so no browser session and no HTTP
\* request), does not raise, and leaves the cache as it was.
C2_CacheHitNoNetwork ==
    (res.pc = "returned" /\ CaseEqualKeys(res.before, res.name) # {}) =>
        /\ res.out.keywords = <<>>
        /\ res.out.tried = 0 /\ res.out.calls = <<>>
        /\ ~res.out.raised
        /\ cache = res.before
        /\ \E i \in CaseEqualKeys(res.before, res.name) : res.out.ret = res.before[i][2]
        /\ \A i \in 1..Len(res.before) :
              res.before[i][1] = res.name => res.out.ret = res.before[i][2]

\* C2 witness: a hit through a key that differs from the name in case only
C2_Witness ==
    /\ res.pc = "returned"
    /\ res.name \notin Keys(res.before)
    /\ CaseEqualKeys(res.before, res.name) # {}
    /\ res.out.ret # NoId /\ res.out.calls = <<>>

\* The names a lookup is made with: the product names and one more case variant
LookupNames == Names \cup {<<"L", "g", "x">>}

\* C3 as claimed (Spec): after put(name, v) a lookup returns v for the name and
\* for every case variant of it, whatever else the cache holds.
C3_Original ==
    lastPut # <<>> =>
        \A n \in LookupNames :
            Lower(n) = Lower(lastPut[1]) => CacheLookup(cache, n) = lastPut[2]

\* C3 amended (Spec).  After put(name, v) a lookup of name returns v.  A lookup
\* of a case variant of name returns the variant's own entry if the variant is
\* a key, else the entry inserted first among the keys equal to it ignoring
\* case; so it returns v when name is the only key equal to it ignoring case.
C3_LookupAfterPut ==
    lastPut # <<>> =>
        /\ CacheLookup(cache, lastPut[1]) = lastPut[2]
        /\ \A n \in LookupNames :
              Lower(n) = Lower(lastPut[1]) =>
                 /\ n \in Keys(cache) =>
                       \E i \in 1..Len(cache) : cache[i] = <<n, CacheLookup(cache, n)>>
                 /\ n \notin Keys(cache) =>
                       \E i \in CaseEqualKeys(cache, n) :
                          /\ \A j \in CaseEqualKeys(cache, n) : i <= j
                          /\ CacheLookup(cache, n) = cache[i][2]
                 /\ (\A i \in CaseEqualKeys(cache, n) : cache[i][1] = lastPut[1]) =>
                       CacheLookup(cache, n) = lastPut[2]

\* C3 witness: the cache holds two keys that differ in case only, with
\* different identities, and a third case variant is looked up
C3_Witness ==
    /\ lastPut # <<>>
    /\ \E i, j \in 1..Len(cache) :
          /\ i < j
          /\ Lower(cache[i][1]) = Lower(cache[j][1])
          /\ cache[i][2] # cache[j][2]
          /\ lastPut = cache[j]
          /\ CacheLookup(cache, <<"L", "g", "x">>) = cache[i][2]

\* C4 (Spec).  When a handler's resolution of name N succeeded through a
\* keyword variant V other than N, the handler's write files the identity under
\* N; it adds no other key, and V is not a key afterwards.
C4_StoredUnderOriginalName ==
    [][\A s \in Slots :
         ( /\ req[s].pc = "returned" /\ req'[s].pc = "done"
           /\ ~req[s].out.hit /\ ~req[s].out.raised /\ req[s].out.ret # NoId
           /\ ViaKeyword(req[s].out) # req[s].name )
         => /\ HasKey(cache', req[s].name)
            /\ Get(cache', req[s].name) = req[s].out.ret
            /\ Keys(cache') = Keys(cache) \cup {req[s].name}
            /\ ViaKeyword(req[s].out) \notin Keys(cache')]_vars

\* C4 witness: a request answered 200 whose identity came from a variant
C4_Witness ==
    \E s \in Slots :
        /\ req[s].pc = "done" /\ req[s].status = "200"
        /\ ~req[s].out.hit
        /\ ViaKeyword(req[s].out) # req[s].name
        /\ HasKey(cache, req[s].name)
        /\ ViaKeyword(req[s].out) \notin Keys(cache)

-----------------------------------------------------------------------------
(* Properties of the compare operation                                     *)

\* An item whose name was resolved and whose page the collector can harvest
ItemCollectable(it) == it.resolved /\ it.collectable

\* An item that was processed and gave no product
ItemFailed(it) == it.outcome \in {"resolve_failed", "collect_failed"}

ItemNotOk(it) == it.outcome # "skipped" /\ ~ItemCollectable(it)

\* C5 as claimed (SpecCompare): when a name of the batch is resolved and its
\* page can be collected, compare returns without raising, its products are the
\* names that were resolved and collected, in input order, and each other name
\* that was processed gives exactly one error.
C5_Original ==
    (cmp.pc = "done" /\ \E k \in 1..Len(cmp.items) : ItemCollectable(cmp.items[k])) =>
        /\ ~cmp.raised
        /\ [k \in 1..Len(cmp.products) |-> cmp.products[k].product_name]
             = [k \in 1..Len(SelectSeq(cmp.items, ItemCollectable)) |->
                   Strip(SelectSeq(cmp.items, ItemCollectable)[k].name)]
        /\ Len(cmp.errors) = Len(SelectSeq(cmp.items, ItemNotOk))

\* C6 (SpecCompare).  The compare operation ends in failure exactly when no
\* item of the batch succeeded.  When the batch passed the check for two names,
\* the failure is the HTTP 500 / the ValueError, and its detail holds one reason
\* for every failed item, in input order, all of them.
C6_FailureIffNoSuccess ==
    cmp.pc = "done" =>
        /\ cmp.raised <=> (\A k \in 1..Len(cmp.items) : cmp.items[k].outcome # "ok")
        /\ cmp.raised <=> cmp.products = <<>>
        /\ (cmp.raised /\ Len(cmp.names) >= 2) =>
              LET failed == SelectSeq(cmp.items, ItemFailed)
              IN /\ cmp.status = IF cmp.impl = "http" THEN "500" ELSE "ValueError"
                 /\ Len(cmp.items) = Len(cmp.names)
                 /\ Len(cmp.detail) = Len(failed)
                 /\ \A k \in 1..Len(failed) :
                       /\ Strip(cmp.detail[k].name) = Strip(failed[k].name)
                       /\ failed[k].outcome = "resolve_failed" =>
                             cmp.detail[k].reason \in {"not_found", "blank", "Exception"}
                       /\ failed[k].outcome = "collect_failed" =>
                             cmp.detail[k].reason \in {"TypeError", "Exception"}

\* C6 witness: a batch of four names that all fail, some in resolution and some
\* in collection, reported with four reasons
C6_Witness ==
    /\ cmp.pc = "done" /\ cmp.raised
    /\ Len(cmp.detail) = 4
    /\ \E k \in 1..4 : cmp.items[k].outcome = "resolve_failed"
    /\ \E k \in 1..4 : cmp.items[k].outcome = "collect_failed"

-----------------------------------------------------------------------------
(* Properties of the image collector                                       *)

\* C7 as claimed (SpecCrawl): called by a request handler, with the detail URL,
\* on a page that loads and holds no image, the collector returns an empty list
\* and does not raise.
C7_Original ==
    ( /\ col.pc = "done" /\ col.caller = "orchestrator"
      /\ col.env.fail = "none" /\ col.env.loads # "never" /\ col.env.found = 0 )
    => (~col.raised /\ col.value = EmptyList)

\* C8 (SpecCrawl).  In a run that reached the download loop no download
\* failure ends the run: the run does not raise, a download is attempted for
\* every discovered image, and every image whose download worked is saved.
C8_DownloadFailureAbsorbed ==
    /\ col.pc = "download" => (~col.raised /\ Len(col.log) = col.idx - 1)
    /\ (col.pc = "done" /\ col.collected) =>
          /\ ~col.raised
          /\ Len(col.log) = col.found
          /\ Len(col.saved) = Cardinality({i \in 1..col.found : col.log[i] = "ok"})

\* C8 witness: three images, the second download times out, the first and the
\* third are saved
C8_Witness ==
    /\ col.pc = "done" /\ ~col.raised
    /\ col.log = <<"ok", "timeout", "ok">>
    /\ Len(col.saved) = 2

\* C9 as claimed (SpecCrawl): the numbers of the files one run saved are
\* 1, 2, ..., n without a gap, also when a download failed.
C9_Original ==
    (col.pc = "done" /\ col.collected) =>
        col.saved = [k \in 1..Len(col.saved) |-> k]

\* C9 amended (SpecCrawl).  The numbers of the files one run saved are unique
\* and are the positions, counted from 1 in discovery order, of the images
\* whose download worked; they run 1, 2, ..., n without a gap exactly when no
\* failed download comes before a successful one.
C9_IndexIsDiscoveryPosition ==
    (col.pc = "done" /\ col.collected) =>
        /\ \A k, l \in 1..Len(col.saved) : k < l => col.saved[k] < col.saved[l]
        /\ {col.saved[k] : k \in 1..Len(col.saved)}
             = {i \in 1..col.found : col.log[i] = "ok"}
        /\ (col.saved = [k \in 1..Len(col.saved) |-> k])
             <=> (\A i, j \in 1..col.found :
                     (i < j /\ col.log[j] = "ok") => col.log[i] = "ok")

\* C9 witness: five images, the third download fails, the files are numbered
\* 1, 2, 4, 5
C9_Witness ==
    /\ col.pc = "done" /\ col.found = 5
    /\ col.log = <<"ok", "ok", "http_error", "ok", "ok">>
    /\ col.saved = <<1, 2, 4, 5>>

-----------------------------------------------------------------------------
(* Properties of the image optimizer                                       *)

\* C10 (SpecOpt).  optimize_image_bytes called with bytes no longer than
\* max_bytes returns these bytes, the mime type it was given, and the length of
\* the bytes as original and as optimized size; it does not open, convert,
\* resize or encode the image.
C10_NoOpWithinBudget ==
    (opt.pc = "done" /\ Len(opt.raw_bytes) <= opt.max_bytes) =>
        /\ opt.out.bytes = opt.raw_bytes
        /\ opt.out.mime = opt.mime_type
        /\ opt.out.original_size = Len(opt.raw_bytes)
        /\ opt.out.optimized_size = Len(opt.raw_bytes)
        /\ opt.decodes = 0 /\ opt.converts = 0 /\ opt.resizes = 0 /\ opt.encodes = 0

\* C10 witness: bytes exactly as long as max_bytes, of an image that would be
\* resized and converted, come back as they are
C10_Witness ==
    /\ opt.pc = "done"
    /\ Len(opt.raw_bytes) = opt.max_bytes /\ opt.max_bytes = 2
    /\ opt.decoding.ok /\ opt.decoding.mode = "RGBA" /\ opt.decoding.width > opt.max_dimension
    /\ opt.mime_type = "image/png"
    /\ opt.out.bytes = opt.raw_bytes /\ opt.decodes = 0

\* C11 (SpecOpt).  For bytes longer than max_bytes that decode, with no
\* failure on the way, optimize_image_bytes encodes at the qualities 85, 80,
\* ..., one after the other, stops at the first encoding that is no longer than
\* max_bytes or at quality 50, and returns that last encoding as image/jpeg
\* with its length as optimized size.  So the output is within max_bytes when
\* one of the encodings made is, and there are never more than 8 encodings.
C11_QualityLadder ==
    /\ opt.encodes <= 8
    /\ opt.pc = "save" =>
          /\ opt.encodes <= 7
          /\ opt.quality = 85 - 5 * opt.encodes
          /\ Len(opt.tried) = opt.encodes
          /\ \A k \in 1..Len(opt.tried) : ~opt.tried[k].fits
    /\ (opt.pc = "done" /\ opt.path = "encoded") =>
          /\ Len(opt.raw_bytes) > opt.max_bytes /\ opt.decoding.ok
          /\ Len(opt.tried) = opt.encodes /\ opt.encodes \in 1..8
          /\ \A k \in 1..Len(opt.tried) : opt.tried[k].quality = 85 - 5 * (k - 1)
          /\ \A k \in 1..(Len(opt.tried) - 1) : ~opt.tried[k].fits
          /\ opt.tried[Len(opt.tried)].fits \/ opt.tried[Len(opt.tried)].quality = 50
          /\ opt.tried[Len(opt.tried)].fits <=> Len(opt.out.bytes) <= opt.max_bytes
          /\ opt.out.bytes = opt.buffer
          /\ opt.out.mime = "image/jpeg"
          /\ opt.out.optimized_size = Len(opt.out.bytes)
          /\ opt.out.original_size = Len(opt.raw_bytes)
          /\ (\E k \in 1..Len(opt.tried) : opt.tried[k].fits) =>
                opt.out.optimized_size <= opt.max_bytes

\* C11 witness: the encodings at 85, 80 and 75 are too long, the one at 70 fits
\* and is returned
C11_Witness ==
    /\ opt.pc = "done" /\ opt.path = "encoded"
    /\ opt.encodes = 4
    /\ opt.tried[4] = [quality |-> 70, fits |-> TRUE]
    /\ opt.out.optimized_size <= opt.max_bytes

\* C12 as claimed (SpecOpt): whatever the byte size of the input, the image
\* that optimize_image_bytes returns has its longer side <= max_dimension.
C12_Original ==
    opt.pc = "done" => Max(opt.out.width, opt.out.height) <= opt.max_dimension

\* C12 amended (SpecOpt).  When the bytes are longer than max_bytes and are
\* decoded, resized and encoded without a failure, the returned image has its
\* longer side <= max_dimension.  Bytes within max_bytes, and bytes whose
\* processing fails, come back as they are, with the sides they had.
C12_DimensionWhenEncoded ==
    /\ (opt.pc = "done" /\ opt.path = "encoded") =>
          /\ Max(opt.out.width, opt.out.height) <= opt.max_dimension
          /\ opt.out.width >= 1 /\ opt.out.height >= 1
          /\ opt.out.width <= opt.decoding.width /\ opt.out.height <= opt.decoding.height
    /\ (opt.pc = "done" /\ opt.path \in {"as_is", "fallback"}) =>
          /\ opt.out.bytes = opt.raw_bytes
          /\ opt.out.width = opt.decoding.width /\ opt.out.height = opt.decoding.height

\* C12 witness: an image of 4 x 3 with max_dimension 2 is returned as 2 x 1
C12_Witness ==
    /\ opt.pc = "done" /\ opt.path = "encoded"
    /\ opt.decoding.width = 4 /\ opt.decoding.height = 3 /\ opt.max_dimension = 2
    /\ opt.resizes = 1
    /\ opt.out.width = 2 /\ opt.out.height = 1

\* C13 as claimed (SpecOpt): the optimized size and the length of the returned
\* bytes are never larger than the original size.
C13_Original ==
    opt.pc = "done" =>
        /\ opt.out.optimized_size <= opt.out.original_size
        /\ Len(opt.out.bytes) <= Len(opt.raw_bytes)

\* C14 (SpecOpt).  When Image.open, convert, resize or save fails, the call
\* does not raise; it returns the bytes and the mime type it was given, and
\* the length of the bytes as original and as optimized size.
C14_FallbackOnFailure ==
    (opt.pc = "done"
       /\ ( opt.failed_at # None
            \/ (Len(opt.raw_bytes) > opt.max_bytes /\ ~opt.decoding.ok) )) =>
        /\ ~opt.raised
        /\ opt.failed_at \in {"open", "convert", "resize", "save"}
        /\ opt.out.bytes = opt.raw_bytes
        /\ opt.out.mime = opt.mime_type
        /\ opt.out.original_size = Len(opt.raw_bytes)
        /\ opt.out.optimized_size = Len(opt.raw_bytes)

\* C14 witness: the third img.save raises after two encodings that were too
\* long, and the png bytes come back
C14_Witness ==
    /\ opt.pc = "done" /\ opt.failed_at = "save"
    /\ opt.encodes = 3 /\ Len(opt.tried) = 2
    /\ opt.mime_type = "image/png"
    /\ opt.out.bytes = opt.raw_bytes /\ opt.out.mime = "image/png"
    /\ ~opt.raised

\* C15: for every input name the list normalize_search_keyword returns has
\* the input name as its first element and no two equal entries (compared
\* case-sensitively), and the variants stand in the order their rules fired:
\* the spaced Samsung form before the joined one.
C15_OriginalFirstNoRepeat ==
    fn.op = "normalize_search_keyword" =>
        /\ Len(fn.output) >= 1
        /\ fn.output[1] = fn.input
        /\ \A i, j \in 1..Len(fn.output) : i # j => fn.output[i] # fn.output[j]
        /\ Len(fn.output) <= 3
        /\ Len(fn.output) = 3 =>
              /\ StartsWith(fn.output[2], SAMSUNG_SP_JEONJA)
              /\ StartsWith(fn.output[3], SAMSUNG_JEONJA)

C15_Witness ==
    /\ fn.op = "normalize_search_keyword"
    /\ fn.input = SAMSUNG \o <<"x">>
    /\ Len(fn.output) = 3

\* C16 as stated: for every input name, the list normalize_search_keyword
\* returns contains no empty or whitespace-only entry.
C16_Original ==
    fn.op = "normalize_search_keyword" =>
        \A k \in 1..Len(fn.output) : Strip(fn.output[k]) # <<>>

\* C16: no generated variant is empty or whitespace-only; the list has such
\* an entry only when the input name itself is one, and then the list is
\* that name alone.
C16_NoBlankVariant ==
    fn.op = "normalize_search_keyword" =>
        /\ \A k \in 2..Len(fn.output) : Strip(fn.output[k]) # <<>>
        /\ Strip(fn.input) # <<>> =>
              \A k \in 1..Len(fn.output) : Strip(fn.output[k]) # <<>>
        /\ Strip(fn.input) = <<>> => fn.output = <<fn.input>>

C16_Witness ==
    /\ fn.op = "normalize_search_keyword"
    /\ fn.input = <<"L", "G", SP>>
    /\ Len(fn.output) = 2
    /\ Strip(fn.output[2]) # <<>>

\* The weight C19 gives a candidate: the integer in front of the w or x of
\* its descriptor, 0 without a descriptor or with one that is no integer
DescribedWeight(descriptor) ==
    CASE descriptor = <<SP, "1", "w">> -> 1
      [] descriptor = <<SP, "2", "w">> -> 2
      [] descriptor = <<SP, "1", "2", "x">> -> 12
      [] OTHER -> 0

\* C19: choose_from_srcset returns the URL of the candidate of the greatest
\* weight, and of the first such candidate in the input when several share
\* the greatest weight.
C19_GreatestWeightFirstOnTies ==
    fn.op = "choose_from_srcset" /\ fn.parts # <<>> =>
        \E k \in 1..Len(fn.parts) :
            /\ fn.output = fn.parts[k].url
            /\ \A h \in 1..Len(fn.parts) :
                  DescribedWeight(fn.parts[h].descriptor)
                      <= DescribedWeight(fn.parts[k].descriptor)
            /\ \A h \in 1..(k - 1) :
                  DescribedWeight(fn.parts[h].descriptor)
                      < DescribedWeight(fn.parts[k].descriptor)

\* "a 2w, b 12x, c 12x": the second candidate wins over the third
C19_Witness ==
    /\ fn.op = "choose_from_srcset"
    /\ fn.input = <<"a", SP, "2", "w", ",", SP, "b", SP, "1", "2", "x", ",", SP,
                    "c", SP, "1", "2", "x">>
    /\ fn.output = <<"b">>

\* What each tier yields on a detail page: the spec-table row, the title, the
\* summary block, the page text, the placeholder made of the pcode
TierYields(pg) ==
    <<SpecTableModel(pg.rows),
      TextTier(pg.title),
      TextTier(pg.info),
      IF pg.body.state = "error" THEN None ELSE FirstPatternLongestHit(pg.body.hits),
      IF pg.pcode # None THEN PcodeModel(pg.pcode) ELSE None>>

TierNames == <<"A", "B", "C", "D", "E">>

C17_Original ==
    Cardinality({w \in ServerWorkers : sess[w].browser = "open"}) <= 1

\* C18: every browser, context and page that a resolve or collect call
\* opened is closed when the call has returned or raised, whichever way it
\* ended.
C18_ClosedOnReturn ==
    \A w \in Workers :
        sess[w].pc = "returned" =>
            /\ sess[w].browser # "open"
            /\ sess[w].context # "open"
            /\ sess[w].page # "open"

\* The script's collector raised after it had opened a page
C18_Witness ==
    /\ sess["cli"].pc = "returned"
    /\ sess["cli"].job = "collect_script"
    /\ sess["cli"].exc
    /\ sess["cli"].browser = "closed"
    /\ sess["cli"].context = "closed"
    /\ sess["cli"].page = "closed"

\* C21: a crawl request (POST /crawl, MCP crawl_product_images) calls the
\* collector only when the cache holds a key equal to the name ignoring
\* case, which only an earlier store can have put there; otherwise it is
\* rejected (404, ValueError; 400 for a blank name) and no collector is
\* called; the cache is the same before and after the request.
C21_CrawlOnlyAfterStore ==
    crawlResp.impl # None =>
        /\ cache = res.before
        /\ crawlResp.called =>
              /\ CIMatches(cache, crawlResp.key) # {}
              /\ \E i \in 1..Len(cache) : cache[i][2].url = crawlResp.url
        /\ ~crawlResp.called =>
              /\ CIMatches(cache, crawlResp.key) = {}
              /\ ~crawlResp.ran
              /\ crawlResp.status \in
                    (IF crawlResp.impl = "mcp" THEN {"ValueError"}
                     ELSE IF crawlResp.key = <<>> THEN {"400"} ELSE {"404"})

\* The MCP tool crawls for a name that is a key only up to case
C21_Witness ==
    /\ crawlResp.impl = "mcp"
    /\ crawlResp.called
    /\ ~HasKey(cache, crawlResp.key)
    /\ CIMatches(cache, crawlResp.key) # {}

C23_VariantsInOrder ==
    res.pc \in {"returned", "done"} /\ res.name # <<>> /\ ~res.out.hit =>
        LET out == res.out
        IN /\ out.keywords = normalize_search_keyword(res.name)
           /\ out.keywords[1] = res.name
           /\ out.tried \in 1..Len(out.keywords)
           /\ Len(out.calls) = out.tried
           /\ \A k \in 1..(out.tried - 1) : out.calls[k].ret = NoId
           /\ out.ret = out.calls[out.tried].ret
           /\ out.ret = NoId => out.tried = Len(out.keywords)

\* The name gave nothing, its second variant gave the identity
C23_Witness ==
    /\ res.pc = "returned"
    /\ ~res.out.hit
    /\ res.out.tried = 2
    /\ res.out.calls[1].ret = NoId
    /\ res.out.ret # NoId
    /\ res.out.ret = res.out.calls[2].ret

\* The tier runs of every search call the resolve call made
SearchRuns == {res.out.calls[k].runs : k \in 1..Len(res.out.calls)}

\* C24 as stated: for one keyword variant the HTTP fallback tier is run only
\* after the browser tier raised; a browser tier that ends without raising
\* and without a result is not followed by the fallback.
C24_Original ==
    res.pc \in {"returned", "done"} =>
        \A runs \in SearchRuns : \A j \in 1..Len(runs) :
            /\ runs[j].tier = "http" =>
                  j > 1 /\ runs[j - 1].tier = "browser" /\ runs[j - 1].out = "raise"
            /\ runs[j].tier = "browser" /\ runs[j].out = "empty" =>
                  (j = Len(runs) \/ runs[j + 1].tier # "http")

\* C24: for one keyword variant the HTTP fallback tier is run exactly when
\* the browser tier gave no result, whether it raised or ended without
\* finding a product or a model code; it is never run after a browser
\* result, and never without a browser run just before it.
C24_FallbackWhenNoBrowserResult ==
    res.pc \in {"returned", "done"} =>
        \A runs \in SearchRuns : \A j \in 1..Len(runs) :
            /\ runs[j].tier = "http" =>
                  /\ j > 1
                  /\ runs[j - 1].tier = "browser"
                  /\ runs[j - 1].out \in {"raise", "empty"}
            /\ runs[j].tier = "browser" /\ runs[j].out \in {"raise", "empty"} =>
                  j < Len(runs) /\ runs[j + 1].tier = "http"
            /\ runs[j].tier = "browser" /\ runs[j].out = "hit" =>
                  (j = Len(runs) \/ runs[j + 1].tier = "browser")

\* A browser tier that found nothing without raising, followed by the
\* fallback, which found the code
C24_Witness ==
    /\ res.pc = "returned"
    /\ \E runs \in SearchRuns :
          /\ runs[1] = TierRun("browser", "empty")
          /\ Len(runs) > 1
          /\ runs[2] = TierRun("http", "hit")

\* C25 as stated: when the page-text tier yields the code, the code is the
\* longest of all hits of all the page-text patterns.
C25_Original ==
    fn.op = "browser_tier" /\ fn.output.tier = "D" =>
        LET hits == fn.input.body.hits
        IN \A p \in 1..Len(hits) : \A i \in 1..Len(hits[p]) :
               StrLen(hits[p][i]) <= StrLen(fn.output.result.model)

\* C25: when the page-text tier yields the code, the code is a hit of the
\* first pattern, in the order of the pattern list, that has any hit on the
\* page text, and no hit of that pattern is longer; hits of later patterns
\* are not considered, however long.
C25_LongestHitOfFirstMatchingPattern ==
    fn.op = "browser_tier" /\ fn.output.tier = "D" =>
        LET hits == fn.input.body.hits
            model == fn.output.result.model
        IN \E p \in 1..Len(hits) :
               /\ hits[p] # <<>>
               /\ \A r \in 1..(p - 1) : hits[r] = <<>>
               /\ \E i \in 1..Len(hits[p]) : hits[p][i] = model
               /\ \A i \in 1..Len(hits[p]) : StrLen(hits[p][i]) <= StrLen(model)

\* The page text holds AP70F03102RTD, which the first pattern finds, and the
\* longer AIRCONDITIONER, which only the third pattern finds
C25_Witness ==
    /\ fn.op = "browser_tier"
    /\ fn.output.tier = "D"
    /\ fn.parts.rest = <<"AIRCONDITIONER", "AP70F03102RTD">>
    /\ fn.input.body.hits[1] = <<"AP70F03102RTD">>
    /\ fn.input.body.hits[3] = <<"AIRCONDITIONER", "AP70F03102RTD">>
    /\ fn.output.result.model = "AP70F03102RTD"

\* C26 as stated: when the search bridge is called with an event loop running
\* and the offloaded worker exceeds its timeout or fails, the call raises to
\* its caller and no further attempt replaces the failed one.
C26_Original ==
    res.pc \in {"returned", "done"} =>
        \A k \in 1..Len(res.out.calls) :
            LET call == res.out.calls[k]
            IN call.offloaded /\ call.timedOut =>
                   /\ call.raised
                   /\ call.ret = NoId
                   /\ call.final = call.runs

\* C27 as stated: within one resolve call each keyword variant goes through
\* the browser tier at most once and through the HTTP fallback tier at most
\* once, also when the offloaded worker times out.
C27_Original ==
    res.pc \in {"returned", "done"} =>
        \A k \in 1..Len(res.out.calls) :
            LET runs == res.out.calls[k].runs
            IN /\ Cardinality({j \in 1..Len(runs) : runs[j].tier = "browser"}) <= 1
               /\ Cardinality({j \in 1..Len(runs) : runs[j].tier = "http"}) <= 1

\* C28 as stated: cache writes are idempotent overwrites; under every
\* interleaving of the requests, a write to a key the cache already holds
\* leaves the identity stored under that key as it was.
C28_Original ==
    [][\A i \in 1..Len(cache) :
           LET name == cache[i][1]
           IN HasKey(cache', name) /\ Get(cache', name) = Get(cache, name)]_vars

\* C29 as stated: when the link of the first product has no href, the
\* browser tier attempts no navigation to a detail page, does not raise and
\* ends without a result.
C29_Original ==
    fn.op = "browser_tier" /\ fn.input.href = "" =>
        /\ ~fn.output.goto
        /\ fn.output.out = "empty"
        /\ fn.output.result = NoId

\* C30 as stated: both compare implementations reject a request that holds
\* fewer than two non-blank product names before anything is resolved or
\* collected; blank names do not count towards the two.
C30_Original ==
    cmp.impl # None /\ Len(McpNames(cmp.names)) < 2 =>
        /\ cmp.raised
        /\ cmp.status \in {"400", "ValueError"}
        /\ cmp.i = 0
        /\ cmp.items = <<>>

====
